---- MODULE Spec2Model ----
(***************************************************************************)
(* Block-continuation engine of the streaming Markdown parser              *)
(* (class MarkdownParser, src/mmm.ts).  A line is a sequence of one-       *)
(* character strings; the parser state, the line processors, the hooks     *)
(* and the parse() driver are translated from the TypeScript source.       *)
(***************************************************************************)
EXTENDS Integers, Sequences, FiniteSets, TLC

(***************************************************************************)
(* Bounds of the model.                                                    *)
(***************************************************************************)
\* largest number of lines the block buffer may hold
MaxBuf == 2

(***************************************************************************)
(* Character-level helpers (String.prototype.* and the regular             *)
(* expressions of the source, computed on sequences of characters).        *)
(***************************************************************************)
Whitespace == {" ", "\t", "\r", "\n"}

\* the character U+0060 (grave accent), written as an atom
Backtick == "grave"

Tilde == "~"

Digits == {"0", "1", "2", "3", "4", "5", "6", "7", "8", "9"}

Drop(s, n) == SubSeq(s, n + 1, Len(s))

Take(s, n) == SubSeq(s, 1, n)

RECURSIVE LeadingRunIn(_, _)
\* length of the longest prefix of s made of characters of the set cs
LeadingRunIn(s, cs) ==
  IF s # <<>> /\ Head(s) \in cs THEN 1 + LeadingRunIn(Tail(s), cs) ELSE 0

RECURSIVE TrailingRunIn(_, _)
TrailingRunIn(s, cs) ==
  IF s # <<>> /\ s[Len(s)] \in cs
  THEN 1 + TrailingRunIn(Take(s, Len(s) - 1), cs) ELSE 0

trimStart(s) == Drop(s, LeadingRunIn(s, Whitespace))

trimEnd(s) == Take(s, Len(s) - TrailingRunIn(s, Whitespace))

trim(s) == trimEnd(trimStart(s))

startsWith(s, p) == Len(s) >= Len(p) /\ Take(s, Len(p)) = p

includes(s, c) == \E k \in 1..Len(s) : s[k] = c

\* String.prototype.charAt: the empty string beyond the end
charAt(s, k) == IF k + 1 <= Len(s) THEN s[k + 1] ELSE ""

RECURSIVE IndexOfChar(_, _)
\* 0-based index of the first c in s, Len(s) when there is none
IndexOfChar(s, c) ==
  IF s = <<>> \/ Head(s) = c THEN 0 ELSE 1 + IndexOfChar(Tail(s), c)

RECURSIVE split(_, _)
\* String.prototype.split on a one-character separator
split(s, c) ==
  LET k == IndexOfChar(s, c)
  IN IF k = Len(s) THEN <<s>> ELSE <<Take(s, k)>> \o split(Drop(s, k + 1), c)

RECURSIVE join(_, _)
\* Array.prototype.join with a one-character separator
join(ls, c) ==
  IF ls = <<>> THEN <<>>
  ELSE IF Len(ls) = 1 THEN ls[1]
  ELSE ls[1] \o <<c>> \o join(Tail(ls), c)

RECURSIVE splitLines(_)
\* split on an optional carriage return followed by a newline
splitLines(s) ==
  LET k == IndexOfChar(s, "\n")
  IN IF k = Len(s) THEN <<s>>
     ELSE LET cut == IF k > 0 /\ s[k] = "\r" THEN k - 1 ELSE k
          IN <<Take(s, cut)>> \o splitLines(Drop(s, k + 1))

(***************************************************************************)
(* Line classification.                                                    *)
(***************************************************************************)
\* optional whitespace, then a greater-than sign
isBlockquote(line) == charAt(trimStart(line), 0) = ">"

\* the line without the matched prefix (whitespace, >, whitespace)
stripBlockquotePrefix(line) ==
  IF isBlockquote(line) THEN trimStart(Drop(trimStart(line), 1)) ELSE line

NoListInfo == [found |-> FALSE, indent |-> 0, isOrdered |-> FALSE, prefix |-> 0]

\* the list-marker regexp: indent, kind of marker, length of the match
getListInfo(line) ==
  LET indent == LeadingRunIn(line, Whitespace)
      rest   == Drop(line, indent)
      nd     == LeadingRunIn(rest, Digits)
      mlen   == IF charAt(rest, 0) \in {"-", "*", "+"} THEN 1
                ELSE IF nd > 0 /\ charAt(rest, nd) \in {".", ")"} THEN nd + 1
                ELSE 0
      gap    == LeadingRunIn(Drop(rest, mlen), Whitespace)
  IN IF mlen > 0 /\ gap > 0
     THEN [found |-> TRUE, indent |-> indent, isOrdered |-> nd > 0,
           prefix |-> indent + mlen + gap]
     ELSE NoListInfo

\* length of the fence run matched by the code-fence opener regexp, 0 when no match
FenceRun(line) ==
  LET rest == trimStart(line)
      c    == charAt(rest, 0)
      n    == IF c \in {Backtick, Tilde} THEN LeadingRunIn(rest, {c}) ELSE 0
  IN IF n >= 3 THEN n ELSE 0

isCodeBlockStart(line) == FenceRun(line) > 0

\* one to six hashes followed by a whitespace character
isHeading(trimmed) ==
  LET n == LeadingRunIn(trimmed, {"#"})
  IN n >= 1 /\ n <= 6 /\ charAt(trimmed, n) \in Whitespace

\* trimmed includes a pipe and is not empty
isTableLine(line) == includes(trim(line), "|") /\ Len(trim(line)) > 0

\* a leading and a trailing pipe removed
StripPipes(trimmed) ==
  LET a == IF charAt(trimmed, 0) = "|" THEN Drop(trimmed, 1) ELSE trimmed
  IN IF a # <<>> /\ a[Len(a)] = "|" THEN Take(a, Len(a) - 1) ELSE a

isTableSeparator(line) ==
  LET trimmed == trim(line)
      parts   == split(StripPipes(trimmed), "|")
  IN /\ includes(trimmed, "-")
     /\ \A k \in 1..Len(parts) :
          LET p == trim(parts[k])
          IN /\ p # <<>>
             /\ \A j \in 1..Len(p) : p[j] \in Whitespace \cup {"-", ":"}
             /\ includes(p, "-")

\* the standalone-image regexp: alt and src when the line matches
ImageMatch(line) ==
  LET t     == trim(line)
      body  == Drop(t, 2)
      k     == IndexOfChar(body, "]")
      after == Drop(body, k + 1)
      src   == SubSeq(after, 2, Len(after) - 1)
      ok    == /\ startsWith(t, <<"!", "[">>)
               /\ k < Len(body)
               /\ charAt(after, 0) = "("
               /\ Len(after) >= 3
               /\ after[Len(after)] = ")"
               /\ ~includes(src, ")")
  IN IF ok THEN [found |-> TRUE, alt |-> Take(body, k), src |-> src]
     ELSE [found |-> FALSE, alt |-> <<>>, src |-> <<>>]

(***************************************************************************)
(* Elements, results and the parser state.                                 *)
(***************************************************************************)
\* RenderedElement; themed stands for the classes and attributes applyTheme adds
El(type, content, children, attributes) ==
  [type |-> type, content |-> content, children |-> children,
   attributes |-> attributes, themed |-> FALSE]

NoElement == El("none", <<>>, <<>>, <<>>)

\* ParseResult of the given type, without element, remainingInput or error
Res(type) ==
  [type |-> type, element |-> NoElement, hasRemaining |-> FALSE,
   remainingInput |-> <<>>, error |-> "none"]

Complete(el) == [Res("complete") EXCEPT !.element = el]

\* the state object resetState() creates and the field initialiser of the class
InitState ==
  [blockType |-> "none", buffer |-> <<>>, inCodeBlock |-> FALSE,
   codeBlockFence |-> "", codeBlockFenceLength |-> 0,
   listType |-> "", listLevels |-> <<>>]

\* an operation's outcome: the instance afterwards, and what the call returned
\* or, when thrown, that an exception left the call
Ret(m, res) ==
  [state |-> m.state, theme |-> m.theme, result |-> res, thrown |-> FALSE]

\* error names the element type whose hook threw
Throw(m, error) ==
  [state |-> m.state, theme |-> m.theme,
   result |-> [Res("exception") EXCEPT !.error = error], thrown |-> TRUE]

\* the private parseInline of MarkdownParser renders inline Markdown to HTML;
\* it is kept as an uninterpreted injective rendering of its argument
parseInline(text) == <<"html:">> \o text

applyTheme(el) == [el EXCEPT !.themed = TRUE]

RECURSIVE applyThemeToElement(_)
applyThemeToElement(el) ==
  [applyTheme(el) EXCEPT
     !.children = [k \in 1..Len(el.children) |-> applyThemeToElement(el.children[k])]]

\* resetState that leaves the open block and its buffer
resetState_KeepsBlock(m) == m

resetState(m) == [m EXCEPT !.state = InitState]

\* completeElement returning the element without resetting the state
completeElement_NoReset(m, cx, el) ==
  IF cx.bad = el.type THEN Throw(m, el.type)
  ELSE Ret(m, Complete(IF m.theme THEN applyTheme(el) ELSE el))

\* hooks: the theme hook when the shared hooks table holds it, then the hook
\* registered for the element's type; cx.bad is the type whose hook throws
completeElement(m, cx, el) ==
  LET themedEl == IF m.theme THEN applyTheme(el) ELSE el
  IN IF cx.bad = el.type THEN Throw(m, el.type)
     ELSE Ret(resetState(m), Complete(themedEl))

(***************************************************************************)
(* Starting and continuing blocks.                                         *)
(***************************************************************************)
\* startCodeBlock that sets inCodeBlock and the fence and leaves blockType
startCodeBlock_FlagOnly(m, line) ==
  IF FenceRun(line) = 0 THEN Ret(m, Res("need_next_token"))
  ELSE Ret([m EXCEPT !.state.inCodeBlock = TRUE,
                     !.state.codeBlockFence = trimStart(line)[1],
                     !.state.codeBlockFenceLength = FenceRun(line),
                     !.state.buffer = <<trim(Drop(trimStart(line), FenceRun(line)))>>],
           Res("need_more_lines"))

startCodeBlock(m, line) ==
  LET n    == FenceRun(line)
      rest == trimStart(line)
  IN IF n = 0 THEN Ret(m, Res("need_next_token"))
     ELSE Ret([m EXCEPT !.state.inCodeBlock = TRUE,
                        !.state.codeBlockFence = rest[1],
                        !.state.codeBlockFenceLength = n,
                        !.state.blockType = "code_block",
                        !.state.buffer = <<trim(Drop(rest, n))>>],
              Res("need_more_lines"))

CodeElement(buffer) ==
  LET language == buffer[1]
      code     == join(Tail(buffer), "\n")
  IN El("code_block", code, <<>>,
        IF language # <<>> THEN << <<"data-language", language>> >> ELSE <<>>)

\* the closing-fence test accepting either fence character
ClosesFence_AnyFenceChar(st, line) ==
  LET trimmed == trim(line)
  IN /\ charAt(trimmed, 0) \in {Backtick, Tilde}
     /\ Len(trimmed) >= st.codeBlockFenceLength
     /\ charAt(trimmed, st.codeBlockFenceLength) # st.codeBlockFence

\* the closing-fence test accepting any run of at least the opening length
ClosesFence_AtLeast(st, line) ==
  LET trimmed == trim(line)
  IN /\ startsWith(trimmed, <<st.codeBlockFence>>)
     /\ Len(trimmed) >= st.codeBlockFenceLength

\* the closing-fence test of handleCodeBlockLine
ClosesFence(st, line) ==
  LET trimmed == trim(line)
  IN /\ startsWith(trimmed, <<st.codeBlockFence>>)
     /\ Len(trimmed) >= st.codeBlockFenceLength
     /\ charAt(trimmed, st.codeBlockFenceLength) # st.codeBlockFence

handleCodeBlockLine(m, cx, line) ==
  IF ClosesFence(m.state, line)
  THEN completeElement(m, cx, CodeElement(m.state.buffer))
  ELSE Ret([m EXCEPT !.state.buffer = Append(@, line)], Res("need_more_lines"))

HeadingType(level) == <<"h1", "h2", "h3", "h4", "h5", "h6">>[level]

handleHeading(m, cx, line) ==
  LET rest    == trimStart(line)
      level   == LeadingRunIn(rest, {"#"})
      content == trim(Drop(rest, level))
  IN IF ~(level >= 1 /\ level <= 6 /\ charAt(rest, level) \in Whitespace
          /\ Len(rest) >= level + 2)
     THEN Ret(m, Res("need_next_token"))
     ELSE completeElement(m, cx, El(HeadingType(level), parseInline(content), <<>>, <<>>))

handleBlockquote(m, line) ==
  Ret([m EXCEPT !.state.blockType = "blockquote",
                !.state.buffer = <<stripBlockquotePrefix(line)>>],
      Res("need_more_lines"))

handleList(m, line, listInfo) ==
  Ret([m EXCEPT !.state.blockType = "list",
                !.state.listType = IF listInfo.isOrdered THEN "ordered" ELSE "unordered",
                !.state.listLevels = <<listInfo.indent>>,
                !.state.buffer = <<line>>],
      Res("need_more_lines"))

handleTable(m, line) ==
  Ret([m EXCEPT !.state.blockType = "table", !.state.buffer = <<line>>],
      Res("need_more_lines"))

handleParagraph(m, line) ==
  Ret([m EXCEPT !.state.blockType = "paragraph", !.state.buffer = <<line>>],
      Res("need_more_lines"))

\* continueCurrentBlock without the lazy continuation of a blockquote
continueCurrentBlock_NoLazy(st, line, trimmed) ==
  LET no  == [continues |-> FALSE, buffer |-> st.buffer]
      yes(l) == [continues |-> TRUE, buffer |-> Append(st.buffer, l)]
  IN CASE st.blockType = "paragraph" -> no
       [] st.blockType = "blockquote" ->
            IF isBlockquote(line) THEN yes(stripBlockquotePrefix(line)) ELSE no
       [] st.blockType = "list" ->
            IF getListInfo(line).found THEN yes(line)
            ELSE IF charAt(line, 0) = " " /\ trimmed # <<>> THEN yes(line)
            ELSE no
       [] st.blockType = "table" ->
            IF isTableLine(line) THEN yes(line) ELSE no
       [] OTHER -> yes(line)

\* continueCurrentBlock whose default case ends the block, like a paragraph
continueCurrentBlock_DefaultEnds(st, line, trimmed) ==
  LET no  == [continues |-> FALSE, buffer |-> st.buffer]
      yes(l) == [continues |-> TRUE, buffer |-> Append(st.buffer, l)]
  IN CASE st.blockType = "blockquote" ->
            IF isBlockquote(line) THEN yes(stripBlockquotePrefix(line))
            ELSE IF trimmed # <<>> /\ ~isCodeBlockStart(line) /\ ~isHeading(trimmed)
                    /\ ~getListInfo(line).found
                 THEN yes(line)
                 ELSE no
       [] st.blockType = "list" ->
            IF getListInfo(line).found THEN yes(line)
            ELSE IF charAt(line, 0) = " " /\ trimmed # <<>> THEN yes(line)
            ELSE no
       [] st.blockType = "table" ->
            IF isTableLine(line) THEN yes(line) ELSE no
       [] OTHER -> no

\* continueCurrentBlock: whether the line continues the open block, and the
\* buffer afterwards
continueCurrentBlock(st, line, trimmed) ==
  LET no  == [continues |-> FALSE, buffer |-> st.buffer]
      yes(l) == [continues |-> TRUE, buffer |-> Append(st.buffer, l)]
  IN CASE st.blockType = "paragraph" -> no
       [] st.blockType = "blockquote" ->
            IF isBlockquote(line) THEN yes(stripBlockquotePrefix(line))
            ELSE IF trimmed # <<>> /\ ~isCodeBlockStart(line) /\ ~isHeading(trimmed)
                    /\ ~getListInfo(line).found
                 THEN yes(line)
                 ELSE no
       [] st.blockType = "list" ->
            IF getListInfo(line).found THEN yes(line)
            ELSE IF charAt(line, 0) = " " /\ trimmed # <<>> THEN yes(line)
            ELSE no
       [] st.blockType = "table" ->
            IF isTableLine(line) THEN yes(line) ELSE no
       [] OTHER -> yes(line)

(***************************************************************************)
(* Line processors.                                                        *)
(***************************************************************************)
\* the markers of the multi-line processors of tests/line-processors.test.ts
MULTI_START == <<"M", "S">>

MULTI_END == <<"M", "E">>

blankLineProcessor == [name |-> "blank_line_handler", priority |-> 100]

imageProcessor == [name |-> "image_handler", priority |-> 90]

multiLineProcessor == [name |-> "multi_line", priority |-> 75]

endProcessor == [name |-> "multi_end", priority |-> 76]

\* the task-list processor of tests/line-processors.test.ts
taskListProcessor == [name |-> "task_list", priority |-> 90]

\* the text behind the checkbox when the regexp of taskListProcessor.process
\* matches (a checkbox, whitespace, then at least one character), else empty
TaskText(trimmed) ==
  IF /\ startsWith(trimmed, <<"-", " ", "[">>)
     /\ charAt(trimmed, 3) \in {"x", " "}
     /\ charAt(trimmed, 4) = "]"
     /\ charAt(trimmed, 5) \in Whitespace
  THEN trimStart(Drop(trimmed, 5))
  ELSE <<>>

RECURSIVE InsertByPriority(_, _)
\* where a stable sort by descending priority leaves p: behind every
\* processor of greater or equal priority
InsertByPriority(ps, p) ==
  IF ps = <<>> THEN <<p>>
  ELSE IF Head(ps).priority >= p.priority
       THEN <<Head(ps)>> \o InsertByPriority(Tail(ps), p)
       ELSE <<p>> \o ps

\* push, then the stable sort by descending priority of an already sorted list
addLineProcessor(ps, p) == InsertByPriority(ps, p)

\* a constructor that registers the blank-line processor only on request
LineProcessors_BlankOptIn(cfg) ==
  LET b == IF cfg.enableImages THEN addLineProcessor(<<>>, imageProcessor) ELSE <<>>
  IN IF cfg.custom
     THEN addLineProcessor(addLineProcessor(b, multiLineProcessor), endProcessor)
     ELSE b

\* the processors the constructor registers, then those the caller adds
ConstructorProcessors(cfg) ==
  LET a == IF cfg.enableBlankLines THEN addLineProcessor(<<>>, blankLineProcessor) ELSE <<>>
      b == IF cfg.enableImages THEN addLineProcessor(a, imageProcessor) ELSE a
  IN IF cfg.custom
     THEN addLineProcessor(addLineProcessor(b, multiLineProcessor), endProcessor)
     ELSE b

\* the processors of the instance: those of ConstructorProcessors, then the
\* task-list processor when the caller adds it
LineProcessors(cfg) ==
  IF cfg.taskList THEN addLineProcessor(ConstructorProcessors(cfg), taskListProcessor)
  ELSE ConstructorProcessors(cfg)

canHandle(name, line, st) ==
  CASE name = "blank_line_handler" -> trim(line) = <<>> /\ ~st.inCodeBlock
    [] name = "image_handler" ->
         ~(st.inCodeBlock \/ st.blockType # "none") /\ ImageMatch(line).found
    [] name = "multi_line" -> startsWith(trim(line), MULTI_START)
    [] name = "multi_end" -> trim(line) = MULTI_END /\ st.blockType = "custom_multi"
    [] name = "task_list" ->
         /\ startsWith(trim(line), <<"-", " ", "[">>)
         /\ charAt(trim(line), 3) \in {"x", " "}
         /\ charAt(trim(line), 4) = "]"

RECURSIVE FirstHandler(_, _, _)
\* the first processor, in list order, whose canHandle accepts the line
FirstHandler(ps, line, st) ==
  IF ps = <<>> THEN "none"
  ELSE IF canHandle(Head(ps).name, line, st) THEN Head(ps).name
  ELSE FirstHandler(Tail(ps), line, st)

\* the configuration of the parser completeBlockquote and createListItem build:
\* only hooks and themeProvider are passed on
InnerCfg ==
  [enableBlankLines |-> TRUE, enableImages |-> TRUE, custom |-> FALSE,
   taskList |-> FALSE]

(***************************************************************************)
(* Completing blocks.                                                      *)
(***************************************************************************)
RECURSIVE parseFrom(_, _, _, _, _)
RECURSIVE parseDocument(_, _, _)
RECURSIVE feedLine(_, _, _)
RECURSIVE completeCurrentBlock(_, _)
RECURSIVE createListItems(_, _, _)

completeParagraph(m, cx) ==
  completeElement(m, cx, El("p", parseInline(m.state.buffer[1]), <<>>, <<>>))

\* an unterminated code block dropped at the end of the input
completeIncompleteCodeBlock_Strict(m, cx) ==
  Ret(resetState(m), Res("need_next_token"))

completeIncompleteCodeBlock(m, cx) ==
  completeElement(m, cx, CodeElement(m.state.buffer))

\* the blockquote element around the tokens of the inner parse; an exception
\* of the inner parse leaves completeBlockquote
blockquoteOf(m, cx, inner) ==
  IF inner.thrown THEN Throw(m, inner.error)
  ELSE completeElement(m, cx, El("blockquote", <<>>, inner.tokens, <<>>))

\* new MarkdownParser({hooks: this.hooks, ...}) puts the theme hook into the
\* hooks table it shares with this parser, then parses the inner text
completeBlockquote(m, cx) ==
  blockquoteOf([m EXCEPT !.theme = TRUE], cx,
               parseDocument(join(m.state.buffer, "\n"),
                             [cx EXCEPT !.cfg = InnerCfg], TRUE))

RECURSIVE GroupItems_EveryMarker(_, _, _)
\* parseListItems cutting before every marker line, whatever its indentation
GroupItems_EveryMarker(lines, level, currentItem) ==
  IF lines = <<>> THEN (IF currentItem # <<>> THEN <<currentItem>> ELSE <<>>)
  ELSE IF getListInfo(Head(lines)).found /\ currentItem # <<>>
       THEN <<currentItem>> \o GroupItems_EveryMarker(Tail(lines), level, <<Head(lines)>>)
       ELSE GroupItems_EveryMarker(Tail(lines), level, Append(currentItem, Head(lines)))

RECURSIVE GroupItems(_, _, _)
\* parseListItems: the buffered lines cut before every marker line that is
\* indented no deeper than level and is not the first line of its item
GroupItems(lines, level, currentItem) ==
  IF lines = <<>> THEN (IF currentItem # <<>> THEN <<currentItem>> ELSE <<>>)
  ELSE LET listInfo == getListInfo(Head(lines))
       IN IF listInfo.found /\ currentItem # <<>> /\ listInfo.indent <= level
          THEN <<currentItem>> \o GroupItems(Tail(lines), level, <<Head(lines)>>)
          ELSE GroupItems(Tail(lines), level, Append(currentItem, Head(lines)))

\* the lines of an item with the list marker cut off its first line
innerLinesOf(lines, listInfo) ==
  <<Drop(lines[1], IF listInfo.found THEN listInfo.prefix ELSE 0)>> \o Tail(lines)

\* a single paragraph child is unwrapped into the content of the item
liElement(children) ==
  IF Len(children) = 1 /\ children[1].type = "p"
  THEN El("li", children[1].content, <<>>, <<>>)
  ELSE El("li", <<>>, children, <<>>)

\* the li element around the tokens of the inner parse, or thrown when the
\* inner parse or the li hook throws
listItemOf(cx, inner) ==
  IF inner.thrown
  THEN [thrown |-> TRUE, error |-> inner.error, element |-> NoElement]
  ELSE IF cx.bad = "li"
  THEN [thrown |-> TRUE, error |-> "li", element |-> NoElement]
  ELSE [thrown |-> FALSE, error |-> "none",
        element |-> applyTheme(liElement(inner.tokens))]

createListItem(lines, cx) ==
  listItemOf(cx, parseDocument(join(innerLinesOf(lines, getListInfo(lines[1])), "\n"),
                               [cx EXCEPT !.cfg = InnerCfg], TRUE))

\* items.push(item), then the groups that follow
pushItem(item, groups, cx, acc) ==
  IF item.thrown THEN [thrown |-> TRUE, error |-> item.error, items |-> acc]
  ELSE createListItems(groups, cx, Append(acc, item.element))

createListItems(groups, cx, acc) ==
  IF groups = <<>> THEN [thrown |-> FALSE, error |-> "none", items |-> acc]
  ELSE pushItem(createListItem(Head(groups), cx), Tail(groups), cx, acc)

\* listLevels[listLevels.length - 1] || 0
currentLevel(st) ==
  IF st.listLevels = <<>> THEN 0 ELSE st.listLevels[Len(st.listLevels)]

\* the ul or ol element around the items
listOf(m, cx, made) ==
  IF made.thrown THEN Throw(m, made.error)
  ELSE completeElement(m, cx,
         El(IF m.state.listType = "ordered" THEN "ol" ELSE "ul", <<>>, made.items, <<>>))

\* every item builds a parser on the shared hooks table
listOfGroups(m, cx, groups) ==
  listOf(IF groups = <<>> THEN m ELSE [m EXCEPT !.theme = TRUE], cx,
         createListItems(groups, cx, <<>>))

completeList(m, cx) ==
  listOfGroups(m, cx, GroupItems(m.state.buffer, currentLevel(m.state), <<>>))

\* cells.map(cell => cell.trim())
trimAll(cells) == [k \in 1..Len(cells) |-> trim(cells[k])]

parseTableRow(line) == trimAll(split(StripPipes(trim(line)), "|"))

\* the alignment a separator cell asks for
alignmentOf(sep) ==
  IF charAt(sep, 0) = ":" /\ sep # <<>> /\ sep[Len(sep)] = ":" THEN "center"
  ELSE IF sep # <<>> /\ sep[Len(sep)] = ":" THEN "right"
  ELSE "left"

alignmentsOf(seps) == [k \in 1..Len(seps) |-> alignmentOf(seps[k])]

parseTableAlignments(separatorLine) == alignmentsOf(parseTableRow(separatorLine))

TableRow(cells, cellType, alignments) ==
  El("tr", <<>>,
     [k \in 1..Len(cells) |->
        El(cellType, parseInline(cells[k]), <<>>,
           IF k <= Len(alignments) /\ alignments[k] # "left"
           THEN << <<"style", alignments[k]>> >> ELSE <<>>)],
     <<>>)

\* the td rows of the lines after the separator
DataRows(dataRows, alignments) ==
  [k \in 1..Len(dataRows) |-> TableRow(parseTableRow(dataRows[k]), "td", alignments)]

\* the table element: thead from the first line, tbody from the lines after
\* the second
TableElement(lines, alignments) ==
  El("table", <<>>,
     << applyThemeToElement(
          El("thead", <<>>, <<TableRow(parseTableRow(lines[1]), "th", alignments)>>, <<>>)),
        applyThemeToElement(
          El("tbody", <<>>, DataRows(Drop(lines, 2), alignments), <<>>)) >>,
     <<>>)

\* completeTable without the validation of the buffer
completeTable_NoValidation(m, cx) ==
  completeElement(m, cx, TableElement(m.state.buffer, <<>>))

completeTable(m, cx) ==
  IF Len(m.state.buffer) < 2 THEN completeParagraph(m, cx)
  ELSE IF ~isTableSeparator(m.state.buffer[2]) THEN completeParagraph(m, cx)
  ELSE completeElement(m, cx,
         TableElement(m.state.buffer, parseTableAlignments(m.state.buffer[2])))

\* the try block of completeCurrentBlock
CompleteByType(m, cx) ==
  CASE m.state.blockType = "paragraph" -> completeParagraph(m, cx)
    [] m.state.blockType = "blockquote" -> completeBlockquote(m, cx)
    [] m.state.blockType = "list" -> completeList(m, cx)
    [] m.state.blockType = "table" -> completeTable(m, cx)
    [] m.state.blockType = "code_block" \/ m.state.inCodeBlock ->
         completeIncompleteCodeBlock(m, cx)
    [] OTHER -> Ret(m, Res("need_next_token"))

\* the catch block of completeCurrentBlock
CatchError(out) ==
  IF out.thrown
  THEN Ret(resetState([state |-> out.state, theme |-> out.theme]),
           [Res("need_next_token") EXCEPT !.error = out.result.error])
  ELSE out

completeCurrentBlock(m, cx) == CatchError(CompleteByType(m, cx))

(***************************************************************************)
(* feedLine and parse.                                                     *)
(***************************************************************************)
\* result.remainingInput = line, set only on a complete result
WithRemaining(out, line) ==
  IF ~out.thrown /\ out.result.type = "complete"
  THEN [out EXCEPT !.result.hasRemaining = TRUE, !.result.remainingInput = line]
  ELSE out

\* process() with a blank-line processor that only emits empty_line elements
process_BlankNeverCompletes(name, m, cx, line) ==
  CASE name = "blank_line_handler" ->
         completeElement(m, cx, El("empty_line", <<>>, <<>>, <<>>))
    [] name = "image_handler" ->
         LET match == ImageMatch(line)
         IN IF ~match.found THEN Ret(m, Res("need_next_token"))
            ELSE completeElement(m, cx,
                   El("img", <<>>, <<>>,
                      << <<"src", trim(match.src)>>, <<"alt", trim(match.alt)>> >>))
    [] name = "multi_line" ->
         Ret([m EXCEPT !.state.blockType = "custom_multi",
                       !.state.buffer =
                          <<trim(Drop(trim(line), Len(MULTI_START)))>>],
             Res("need_more_lines"))
    [] name = "multi_end" ->
         Ret([m EXCEPT !.state.blockType = "none", !.state.buffer = <<>>],
             Complete(El("multi_block", join(m.state.buffer, "\n"), <<>>, <<>>)))

\* the process() function of the line processor of the given name
ProcessOf(name, m, cx, line) ==
  CASE name = "blank_line_handler" ->
         IF m.state.blockType # "none"
         THEN WithRemaining(completeCurrentBlock(m, cx), line)
         ELSE completeElement(m, cx, El("empty_line", <<>>, <<>>, <<>>))
    [] name = "image_handler" ->
         LET match == ImageMatch(line)
         IN IF ~match.found THEN Ret(m, Res("need_next_token"))
            ELSE completeElement(m, cx,
                   El("img", <<>>, <<>>,
                      << <<"src", trim(match.src)>>, <<"alt", trim(match.alt)>> >>))
    [] name = "multi_line" ->
         Ret([m EXCEPT !.state.blockType = "custom_multi",
                       !.state.buffer =
                          <<trim(Drop(trim(line), Len(MULTI_START)))>>],
             Res("need_more_lines"))
    [] name = "multi_end" ->
         Ret([m EXCEPT !.state.blockType = "none", !.state.buffer = <<>>],
             Complete(El("multi_block", join(m.state.buffer, "\n"), <<>>, <<>>)))
    [] name = "task_list" ->
         IF TaskText(trim(line)) = <<>> THEN Ret(m, Res("need_next_token"))
         ELSE Ret(m, Complete(El("task_item", TaskText(trim(line)), <<>>,
                                 << <<"data-checked",
                                      IF charAt(trim(line), 3) = "x"
                                      THEN <<"t", "r", "u", "e">>
                                      ELSE <<"f", "a", "l", "s", "e">> >> >>)))

\* processor.process(lineInfo, this.state, this) in feedLine: cx.bad names
\* the processor whose handler throws
process(name, m, cx, line) ==
  IF cx.bad = name THEN Throw(m, name) ELSE ProcessOf(name, m, cx, line)

handleEmptyLine(m, cx) ==
  IF m.state.blockType \notin {"none", "code_block", "blockquote", "list"}
  THEN completeCurrentBlock(m, cx)
  ELSE Ret(m, Res("need_more_lines"))

\* the built-in dispatch of feedLine, after the line processors declined
Dispatch(m, cx, line) ==
  LET trimmed == trim(line)
  IN IF trimmed = <<>> THEN handleEmptyLine(m, cx)
     ELSE IF m.state.blockType # "none"
     THEN LET c == continueCurrentBlock(m.state, line, trimmed)
          IN IF c.continues
             THEN Ret([m EXCEPT !.state.buffer = c.buffer], Res("need_more_lines"))
             ELSE WithRemaining(completeCurrentBlock(m, cx), line)
     ELSE IF isCodeBlockStart(line) THEN startCodeBlock(m, line)
     ELSE IF isHeading(trimmed) THEN handleHeading(m, cx, line)
     ELSE IF isBlockquote(line) THEN handleBlockquote(m, line)
     ELSE IF getListInfo(line).found THEN handleList(m, line, getListInfo(line))
     ELSE IF isTableLine(line) THEN handleTable(m, line)
     ELSE handleParagraph(m, line)

\* feedLine asking the line processors before looking at inCodeBlock
feedLine_ProcessorsFirst(m, cx, line) ==
  LET name == FirstHandler(LineProcessors(cx.cfg), line, m.state)
  IN IF name # "none" THEN process(name, m, cx, line)
     ELSE IF m.state.inCodeBlock THEN handleCodeBlockLine(m, cx, line)
     ELSE Dispatch(m, cx, line)

feedLine(m, cx, line) ==
  IF m.state.inCodeBlock THEN handleCodeBlockLine(m, cx, line)
  ELSE LET name == FirstHandler(LineProcessors(cx.cfg), line, m.state)
       IN IF name # "none" THEN process(name, m, cx, line)
          ELSE Dispatch(m, cx, line)

\* what parse() pushes to its output for a result
Pushed(res) ==
  IF res.type = "complete" /\ res.element.type # "none" THEN <<res.element>> ELSE <<>>

\* parse() after its loop: the result of the final completeCurrentBlock
ParseEnd(out, tokens) ==
  [state |-> out.state, theme |-> out.theme, thrown |-> FALSE,
   error |-> "none", tokens |-> tokens \o Pushed(out.result)]

\* one iteration of the loop of parse(), given what feedLine returned for
\* line i: an exception leaves parse(), remainingInput keeps the loop on line i
ParseStep(out, cx, lines, i, tokens) ==
  IF out.thrown
  THEN [state |-> out.state, theme |-> out.theme, thrown |-> TRUE,
        error |-> out.result.error, tokens |-> tokens]
  ELSE parseFrom([state |-> out.state, theme |-> out.theme], cx, lines,
                 IF out.result.hasRemaining THEN i ELSE i + 1,
                 tokens \o Pushed(out.result))

\* the loop of parse() from line i, then the flush
parseFrom(m, cx, lines, i, tokens) ==
  IF i > Len(lines) THEN ParseEnd(completeCurrentBlock(m, cx), tokens)
  ELSE ParseStep(feedLine(m, cx, lines[i]), cx, lines, i, tokens)

\* parse(markdown) on a newly constructed parser whose hooks table has the
\* theme hook iff theme
parseDocument(markdown, cx, theme) ==
  parseFrom([state |-> InitState, theme |-> theme], cx, splitLines(markdown), 1, <<>>)

(***************************************************************************)
(* TokenParser: the line tokenizer with plugins and hooks.                 *)
(***************************************************************************)
\* Token; hooked stands for what the hooks made of the token: one entry for
\* every hook applied, in the order applied, with the children the hook saw
Tok(type, content, children, metadata) ==
  [type |-> type, content |-> content, children |-> children,
   metadata |-> metadata, hooked |-> <<>>]

(***************************************************************************)
(* parseInline of the tokenizer: the scan of one line for inline syntax.   *)
(* A token field that the code leaves out is the empty sequence here, as   *)
(* is an empty string or an empty array. The texts of the model hold no    *)
(* double quote and no less-than sign, and the tokenizer is called without *)
(* an emoji manager: the emoji, image-card and autolink branches and the   *)
(* title group of the link and image regexps never match.                  *)
(***************************************************************************)
Backslash == "\\"

CursorMarker == <<"@", "!">>

\* the characters of the class \w that the texts of the model can hold
WordChars == {"a", "b", "x", "z", "_"} \cup Digits

TextToken(content) == Tok("text", content, <<>>, <<>>)

CursorToken == Tok("cursor", <<>>, <<>>, <<>>)

\* remaining.slice(a, b) for 0 <= a
slice(s, a, b) == SubSeq(s, a + 1, IF b <= Len(s) THEN b ELSE Len(s))

\* remaining.slice(i, i + pat.length) === pat
sliceEquals(s, i, pat) ==
  /\ i + Len(pat) <= Len(s)
  /\ SubSeq(s, i + 1, i + Len(pat)) = pat

RECURSIVE indexOf(_, _, _)
\* s.indexOf(pat, from): the index of the first occurrence at or after from,
\* -1 when there is none
indexOf(s, pat, from) ==
  IF from + Len(pat) > Len(s) THEN -1
  ELSE IF SubSeq(s, from + 1, from + Len(pat)) = pat THEN from
  ELSE indexOf(s, pat, from + 1)

\* text.includes('@!')
includesCursor(s) == indexOf(s, CursorMarker, 0) # -1

RECURSIVE CursorOnlyFrom(_, _)
\* the loop of parseCursorOnlyContent from currentIndex: the text up to the
\* next cursor marker, a cursor token, and so on; the text left after the
\* last marker
CursorOnlyFrom(remaining, currentIndex) ==
  IF currentIndex >= Len(remaining) THEN <<>>
  ELSE IF indexOf(remaining, CursorMarker, currentIndex) = -1
  THEN <<TextToken(Drop(remaining, currentIndex))>>
  ELSE (IF indexOf(remaining, CursorMarker, currentIndex) > currentIndex
        THEN <<TextToken(slice(remaining, currentIndex,
                               indexOf(remaining, CursorMarker, currentIndex)))>>
        ELSE <<>>)
       \o <<CursorToken>>
       \o CursorOnlyFrom(remaining, indexOf(remaining, CursorMarker, currentIndex) + 2)

\* the filter of parseCursorOnlyContent keeps text with content and cursors
parseCursorOnlyContent(text) ==
  SelectSeq(CursorOnlyFrom(text, 0),
            LAMBDA t : t.content # <<>> \/ t.type = "cursor")

\* what one branch of the loop of parseInline did at currentIndex: whether it
\* matched, the tokens it pushed after the text before currentIndex, and the
\* new value of remaining
\* spans holds the text that the branch gave to a recursive call of parseInline
Hit(tokens, rest) ==
  [matched |-> TRUE, tokens |-> tokens, rest |-> rest, spans |-> <<>>]

Miss == [matched |-> FALSE, tokens |-> <<>>, rest |-> <<>>, spans |-> <<>>]

\* the match of a branch that parsed span by a recursive call of parseInline
HitOn(span, tokens, rest) ==
  [matched |-> TRUE, tokens |-> tokens, rest |-> rest, spans |-> <<span>>]

\* the token of a construct with opaque content that keeps the content
\* next to the cursor tokens and text made of it
ContentToken_KeepsContent(type, content) ==
  IF indexOf(content, <<"@", "!">>, 0) # -1
  THEN Tok(type, content, parseCursorOnlyContent(content), <<>>)
  ELSE Tok(type, content, <<>>, <<>>)

\* the token of a construct whose content is not parsed for inline syntax:
\* cursor tokens and text as children when the content holds a cursor marker,
\* the content as it stands otherwise
ContentToken(type, content) ==
  IF includesCursor(content)
  THEN Tok(type, <<>>, parseCursorOnlyContent(content), <<>>)
  ELSE Tok(type, content, <<>>, <<>>)

RECURSIVE parseInlineTokens(_)

\* a backslash before another character: the character as a text token
escapeMatch(remaining, i) ==
  IF charAt(remaining, i) = Backslash /\ i + 1 < Len(remaining)
  THEN Hit(<<TextToken(<<remaining[i + 2]>>)>>, Drop(remaining, i + 2))
  ELSE Miss

\* the cursor marker: a cursor token; a second marker right behind it is
\* literal text
cursorMatch(remaining, i) ==
  IF ~sliceEquals(remaining, i, CursorMarker) THEN Miss
  ELSE IF sliceEquals(remaining, i + 2, CursorMarker)
  THEN Hit(<<CursorToken, TextToken(CursorMarker)>>, Drop(remaining, i + 4))
  ELSE Hit(<<CursorToken>>, Drop(remaining, i + 2))

RECURSIVE UrlRun(_)
\* the length of the longest prefix of s without a closing parenthesis and
\* without whitespace
UrlRun(s) ==
  IF s = <<>> \/ Head(s) \in {")"} \cup Whitespace THEN 0
  ELSE 1 + UrlRun(Tail(s))

\* whether a closing bracket, an opening parenthesis, a url of at least
\* minUrl characters and a closing parenthesis begin at index k of s
ClosesAt(s, k, minUrl) ==
  /\ sliceEquals(s, k, <<"]", "(">>)
  /\ UrlRun(Drop(s, k + 2)) >= minUrl
  /\ charAt(s, k + 2 + UrlRun(Drop(s, k + 2))) = ")"

RECURSIVE FirstClose(_, _, _)
\* the lazy group for the bracketed text: the least index at or after k
\* where the rest of the regexp matches, -1 when there is none
FirstClose(s, k, minUrl) ==
  IF k >= Len(s) THEN -1
  ELSE IF ClosesAt(s, k, minUrl) THEN k
  ELSE FirstClose(s, k + 1, minUrl)

\* the end of the match of the link or image regexp whose bracket closes at k
MatchLength(s, k) == k + 3 + UrlRun(Drop(s, k + 2))

\* the url group of the match whose bracket closes at k
UrlGroup(s, k) == slice(s, k + 2, k + 2 + UrlRun(Drop(s, k + 2)))

\* the image: the alternative text parsed for inline syntax, the source kept
\* as metadata
\* the first group of the image regexp
altText(s, k) == slice(s, 2, k)

imageToken(s, k) ==
  Tok("image", <<>>, parseInlineTokens(altText(s, k)),
      << <<"src", UrlGroup(s, k)>>, <<"title", <<>>>> >>)

imageMatch(remaining, i) ==
  IF /\ sliceEquals(remaining, i, <<"!", "[">>)
     /\ FirstClose(Drop(remaining, i), 2, 1) # -1
  THEN HitOn(altText(Drop(remaining, i), FirstClose(Drop(remaining, i), 2, 1)),
             <<imageToken(Drop(remaining, i), FirstClose(Drop(remaining, i), 2, 1))>>,
             Drop(remaining, i + MatchLength(Drop(remaining, i),
                                             FirstClose(Drop(remaining, i), 2, 1))))
  ELSE Miss

\* whether id matches the regexp of one or more word characters
IsWord(id) == id # <<>> /\ \A k \in 1..Len(id) : id[k] \in WordChars

\* the footnote reference: a bracket and a caret, a word, the first closing
\* bracket
footnoteMatch(remaining, i) ==
  IF /\ sliceEquals(remaining, i, <<"[", "^">>)
     /\ indexOf(remaining, <<"]">>, i + 2) # -1
     /\ IsWord(slice(remaining, i + 2, indexOf(remaining, <<"]">>, i + 2)))
  THEN Hit(<<Tok("footnote_ref",
                 slice(remaining, i + 2, indexOf(remaining, <<"]">>, i + 2)),
                 <<>>, <<>>)>>,
           Drop(remaining, indexOf(remaining, <<"]">>, i + 2) + 1))
  ELSE Miss

\* the metadata of a link: the title, and the href as cursor tokens and text
\* when it holds a cursor marker, as it stands otherwise
linkMetadata(href) ==
  IF includesCursor(href)
  THEN << <<"title", <<>>>>, <<"hrefTokens", parseCursorOnlyContent(href)>> >>
  ELSE << <<"title", <<>>>>, <<"href", href>> >>

\* the first group of the link regexp
linkText(s, k) == slice(s, 1, k)

linkToken(s, k) ==
  Tok("link", <<>>, parseInlineTokens(linkText(s, k)), linkMetadata(UrlGroup(s, k)))

linkMatch(remaining, i) ==
  IF /\ charAt(remaining, i) = "["
     /\ FirstClose(Drop(remaining, i), 1, 0) # -1
  THEN HitOn(linkText(Drop(remaining, i), FirstClose(Drop(remaining, i), 1, 0)),
             <<linkToken(Drop(remaining, i), FirstClose(Drop(remaining, i), 1, 0))>>,
             Drop(remaining, i + MatchLength(Drop(remaining, i),
                                             FirstClose(Drop(remaining, i), 1, 0))))
  ELSE Miss

\* strikethrough between two pairs of tildes: the content between them when
\* there is some, the empty strikethrough when the pairs touch
strikethroughMatch(remaining, i) ==
  IF ~sliceEquals(remaining, i, <<Tilde, Tilde>>) THEN Miss
  ELSE IF indexOf(remaining, <<Tilde, Tilde>>, i + 2) > i + 2
  THEN Hit(<<ContentToken("strikethrough",
                          slice(remaining, i + 2,
                                indexOf(remaining, <<Tilde, Tilde>>, i + 2)))>>,
           Drop(remaining, indexOf(remaining, <<Tilde, Tilde>>, i + 2) + 2))
  ELSE IF indexOf(remaining, <<Tilde, Tilde>>, i + 2) = i + 2
  THEN Hit(<<Tok("strikethrough", <<>>, <<>>, <<>>)>>, Drop(remaining, i + 4))
  ELSE Miss

\* a construct between an opener at i and the first occurrence of closer
\* behind it, whose content is not parsed for inline syntax
ContentMatch(remaining, i, opener, closer, type) ==
  IF indexOf(remaining, closer, i + Len(opener)) # -1
  THEN Hit(<<ContentToken(type,
                          slice(remaining, i + Len(opener),
                                indexOf(remaining, closer, i + Len(opener))))>>,
           Drop(remaining, indexOf(remaining, closer, i + Len(opener)) + Len(closer)))
  ELSE Miss

\* a construct between an opener at i and the closer at endIndex, whose
\* content is parsed for inline syntax
NestedMatch(remaining, i, opener, endIndex, type) ==
  IF endIndex # -1
  THEN HitOn(slice(remaining, i + Len(opener), endIndex),
             <<Tok(type, <<>>,
                   parseInlineTokens(slice(remaining, i + Len(opener), endIndex)),
                   <<>>)>>,
             Drop(remaining, endIndex + Len(opener)))
  ELSE Miss

highlightMatch(remaining, i) ==
  IF sliceEquals(remaining, i, <<"=", "=">>)
  THEN ContentMatch(remaining, i, <<"=", "=">>, <<"=", "=">>, "highlight")
  ELSE Miss

\* the end of bold text that the asterisks at i open, without the special
\* case for three asterisks
boldEndIndex_NoSpecialCase(remaining, i) ==
  indexOf(remaining, <<"*", "*">>, i + 2)

\* the end of bold text that the asterisks at i open: the first pair of
\* asterisks behind them, one later when an asterisk follows the pair
boldEndIndex(remaining, i) ==
  IF /\ indexOf(remaining, <<"*", "*">>, i + 2) # -1
     /\ charAt(remaining, indexOf(remaining, <<"*", "*">>, i + 2) + 2) = "*"
  THEN indexOf(remaining, <<"*", "*">>, i + 2) + 1
  ELSE indexOf(remaining, <<"*", "*">>, i + 2)

\* bold text between pairs of asterisks that takes the end of the text for
\* the closing pair when there is none
boldAsteriskMatch_ClosedByEnd(remaining, i) ==
  IF sliceEquals(remaining, i, <<"*", "*">>)
  THEN NestedMatch(remaining, i, <<"*", "*">>,
                   IF boldEndIndex(remaining, i) = -1 THEN Len(remaining)
                   ELSE boldEndIndex(remaining, i), "bold")
  ELSE Miss

boldAsteriskMatch(remaining, i) ==
  IF sliceEquals(remaining, i, <<"*", "*">>)
  THEN NestedMatch(remaining, i, <<"*", "*">>, boldEndIndex(remaining, i), "bold")
  ELSE Miss

boldUnderscoreMatch(remaining, i) ==
  IF sliceEquals(remaining, i, <<"_", "_">>)
  THEN NestedMatch(remaining, i, <<"_", "_">>,
                   indexOf(remaining, <<"_", "_">>, i + 2), "bold")
  ELSE Miss

\* inline code: one grave accent that does not begin three of them, up to
\* the next one
inlineCodeMatch(remaining, i) ==
  IF /\ charAt(remaining, i) = Backtick
     /\ ~sliceEquals(remaining, i, <<Backtick, Backtick, Backtick>>)
  THEN ContentMatch(remaining, i, <<Backtick>>, <<Backtick>>, "inline_code")
  ELSE Miss

\* italic text: one delimiter that another does not follow, up to the next one
italicMatch(remaining, i, delimiter) ==
  IF charAt(remaining, i) = delimiter /\ charAt(remaining, i + 1) # delimiter
  THEN NestedMatch(remaining, i, <<delimiter>>,
                   indexOf(remaining, <<delimiter>>, i + 1), "italic")
  ELSE Miss

subscriptMatch(remaining, i) ==
  IF charAt(remaining, i) = Tilde /\ charAt(remaining, i + 1) # Tilde
  THEN ContentMatch(remaining, i, <<Tilde>>, <<Tilde>>, "subscript")
  ELSE Miss

\* superscript: a caret that no space follows, up to the next caret
superscriptMatch(remaining, i) ==
  IF charAt(remaining, i) = "^" /\ ~sliceEquals(remaining, i, <<"^", " ">>)
  THEN ContentMatch(remaining, i, <<"^">>, <<"^">>, "superscript")
  ELSE Miss

\* if (!matched && ...): a branch is tried when none before it matched
OrElse(m, next) == IF m.matched THEN m ELSE next

\* the branches of one iteration of the loop in the order of the code
FirstMatch(remaining, i) ==
  OrElse(escapeMatch(remaining, i),
  OrElse(cursorMatch(remaining, i),
  OrElse(imageMatch(remaining, i),
  OrElse(footnoteMatch(remaining, i),
  OrElse(linkMatch(remaining, i),
  OrElse(strikethroughMatch(remaining, i),
  OrElse(highlightMatch(remaining, i),
  OrElse(boldAsteriskMatch(remaining, i),
  OrElse(boldUnderscoreMatch(remaining, i),
  OrElse(inlineCodeMatch(remaining, i),
  OrElse(italicMatch(remaining, i, "*"),
  OrElse(italicMatch(remaining, i, "_"),
  OrElse(subscriptMatch(remaining, i),
         superscriptMatch(remaining, i))))))))))))))

\* the text before currentIndex that every branch pushes before its token
TextBefore(remaining, currentIndex) ==
  IF currentIndex > 0 THEN <<TextToken(Take(remaining, currentIndex))>> ELSE <<>>

\* the text left when the loop ends, pushed one token for every character
RemainingText_PerCharacter(remaining) ==
  [k \in 1..Len(remaining) |-> TextToken(<<remaining[k]>>)]

\* the text left when the loop ends
RemainingText(remaining) ==
  IF Len(remaining) > 0 THEN <<TextToken(remaining)>> ELSE <<>>

\* where the next iteration scans when a match leaves remaining whole and
\* moves the index behind the matched text
Advance_PastMatch(m, remaining, currentIndex) ==
  IF m.matched
  THEN [remaining |-> remaining, currentIndex |-> Len(remaining) - Len(m.rest)]
  ELSE [remaining |-> remaining, currentIndex |-> currentIndex + 1]

\* where the next iteration scans: remaining replaced and the index back at
\* 0 after a match, the index one further otherwise
Advance(m, remaining, currentIndex) ==
  IF m.matched
  THEN [remaining |-> m.rest, currentIndex |-> 0]
  ELSE [remaining |-> remaining, currentIndex |-> currentIndex + 1]

RECURSIVE ScanInline(_, _, _)
\* the end of one iteration: the tokens of a match pushed behind the text
\* before it, and the scan moved on
ScanFrom(next, tokens) == ScanInline(next.remaining, next.currentIndex, tokens)

AfterMatch(m, remaining, currentIndex, tokens) ==
  ScanFrom(Advance(m, remaining, currentIndex),
           IF m.matched
           THEN tokens \o TextBefore(remaining, currentIndex) \o m.tokens
           ELSE tokens)

\* the loop of parseInline and the push behind it
ScanInline(remaining, currentIndex, tokens) ==
  IF currentIndex >= Len(remaining) THEN tokens \o RemainingText(remaining)
  ELSE AfterMatch(FirstMatch(remaining, currentIndex), remaining, currentIndex, tokens)

\* the types that the final filter keeps without content and without children
KeptTypes ==
  {"cursor", "image", "link", "inline_code", "strikethrough", "highlight",
   "subscript", "superscript"}

\* parseInline(text): the tokens of the scan that the final filter keeps
parseInlineTokens(text) ==
  SelectSeq(ScanInline(text, 0, <<>>),
            LAMBDA t : t.content # <<>> \/ t.children # <<>> \/ t.type \in KeptTypes)

RECURSIVE QuotePrefix(_)
\* length of the longest prefix made of greater-than signs each followed by
\* optional whitespace
QuotePrefix(s) ==
  IF charAt(s, 0) # ">" THEN 0
  ELSE 1 + LeadingRunIn(Drop(s, 1), Whitespace)
       + QuotePrefix(Drop(s, 1 + LeadingRunIn(Drop(s, 1), Whitespace)))

\* count of the occurrences of c in s
RECURSIVE CountOf(_, _)
CountOf(s, c) ==
  IF s = <<>> THEN 0 ELSE (IF Head(s) = c THEN 1 ELSE 0) + CountOf(Tail(s), c)

\* the blockquote token of a line that begins with a greater-than sign
BlockquoteToken(line, n) ==
  Tok("blockquote", <<>>, parseInlineTokens(trim(Drop(line, n))),
      << <<"level", CountOf(Take(line, n), ">")>> >>)

\* what the heading regexp captures as content after the hashes: the text
\* behind the whitespace without its trailing whitespace, one whitespace
\* character when nothing else is left, and no match otherwise
HeadingContent(afterHashes, gap) ==
  IF Drop(afterHashes, gap) # <<>> THEN trimEnd(Drop(afterHashes, gap))
  ELSE IF gap >= 2 THEN <<afterHashes[gap]>>
  ELSE <<>>

HeadingToken(line, level) ==
  Tok(HeadingType(level), <<>>,
      parseInlineTokens(HeadingContent(Drop(line, level),
                                       LeadingRunIn(Drop(line, level), Whitespace))),
      <<>>)

\* whether the heading regexp matches the line, given its leading hashes
HeadingMatches(line, level) ==
  /\ level >= 1
  /\ level <= 6
  /\ LeadingRunIn(Drop(line, level), Whitespace) >= 1
  /\ HeadingContent(Drop(line, level),
                    LeadingRunIn(Drop(line, level), Whitespace)) # <<>>

\* the word behind the three grave accents of a code fence line
FenceWord(line) ==
  Take(trimStart(Drop(line, 3)), LeadingRunIn(trimStart(Drop(line, 3)), WordChars))

\* the code fence regexp: three grave accents, whitespace, an optional
\* word, whitespace, the end of the line
CodeFenceMatches(line) ==
  /\ startsWith(line, <<Backtick, Backtick, Backtick>>)
  /\ trim(Drop(trimStart(Drop(line, 3)), Len(FenceWord(line)))) = <<>>

CodeFenceToken(line) ==
  Tok("code_fence", <<>>, <<>>,
      IF FenceWord(line) # <<>> THEN << <<"lang", FenceWord(line)>> >> ELSE <<>>)

\* isHR: at least three characters, nothing but whitespace and one of the
\* rule characters, which occurs three times or more
isHorizontalRule(trimmed) ==
  /\ Len(trimmed) >= 3
  /\ \E d \in {"-", "*", "_"} :
       /\ \A k \in 1..Len(trimmed) : trimmed[k] \in Whitespace \cup {d}
       /\ CountOf(trimmed, d) >= 3

\* the id of a footnote definition: the word behind the bracket and the caret
FootnoteDefId(line) == Take(Drop(line, 2), LeadingRunIn(Drop(line, 2), WordChars))

\* the footnote definition regexp: bracket, caret, a word, bracket, colon
FootnoteDefMatches(line) ==
  /\ startsWith(line, <<"[", "^">>)
  /\ FootnoteDefId(line) # <<>>
  /\ sliceEquals(line, 2 + Len(FootnoteDefId(line)), <<"]", ":">>)

FootnoteDefToken(line) ==
  Tok("footnote_def", <<>>,
      parseInlineTokens(trimStart(Drop(line, 4 + Len(FootnoteDefId(line))))),
      << <<"id", FootnoteDefId(line)>> >>)

DigitChars == <<"0", "1", "2", "3", "4", "5", "6", "7", "8", "9">>

RECURSIVE parseInt(_)
\* parseInt(digits, 10) of a string of decimal digits
parseInt(digits) ==
  IF digits = <<>> THEN 0
  ELSE 10 * parseInt(Take(digits, Len(digits) - 1))
       + (CHOOSE v \in 0..9 : DigitChars[v + 1] = digits[Len(digits)])

\* the length of the list marker that s begins with: a dash, a plus sign, an
\* asterisk, or digits and a period; 0 when it begins with none
MarkerLength(s) ==
  IF charAt(s, 0) \in {"-", "+", "*"} THEN 1
  ELSE IF LeadingRunIn(s, Digits) >= 1 /\ charAt(s, LeadingRunIn(s, Digits)) = "."
  THEN LeadingRunIn(s, Digits) + 1
  ELSE 0

\* the list item regexp: whitespace, a marker, whitespace
ListItemMatches(line) ==
  /\ MarkerLength(trimStart(line)) > 0
  /\ LeadingRunIn(Drop(trimStart(line), MarkerLength(trimStart(line))), Whitespace) >= 1

\* the content group of the list item regexp
ListItemContent(line) ==
  trimStart(Drop(trimStart(line), MarkerLength(trimStart(line))))

\* the task regexp on the content of a list item: a bracket, one character, a
\* bracket, whitespace
TaskMatches(content) ==
  /\ charAt(content, 0) = "["
  /\ Len(content) >= 3
  /\ content[3] = "]"
  /\ LeadingRunIn(Drop(content, 3), Whitespace) >= 1

\* the token of a list item given its indent, marker and content
ListItemOf(indent, marker, content) ==
  IF TaskMatches(content)
  THEN Tok("task_list_item", <<>>, parseInlineTokens(trimStart(Drop(content, 3))),
           << <<"indent", indent>>, <<"checked", content[2] \in {"x", "X"}>> >>)
  ELSE IF marker[Len(marker)] = "."
  THEN Tok("ordered_list_item", <<>>, parseInlineTokens(content),
           << <<"indent", indent>>,
              <<"start", parseInt(Take(marker, Len(marker) - 1))>> >>)
  ELSE Tok("unordered_list_item", <<>>, parseInlineTokens(content),
           << <<"indent", indent>> >>)

ListItemToken(line) ==
  ListItemOf(LeadingRunIn(line, Whitespace),
             Take(trimStart(line), MarkerLength(trimStart(line))),
             ListItemContent(line))

\* cells[0] === '' shifted, then a last '' popped
WithoutEmptyEnds(cells) ==
  LET shifted == IF cells # <<>> /\ cells[1] = <<>> THEN Tail(cells) ELSE cells
  IN IF shifted # <<>> /\ shifted[Len(shifted)] = <<>>
     THEN Take(shifted, Len(shifted) - 1) ELSE shifted

\* the cells of a line with a pipe
TableCells(line) == WithoutEmptyEnds(trimAll(split(line, "|")))

\* the separator cell regexp: an optional colon, dashes, an optional colon
IsSeparatorCell(cell) ==
  LET a == IF charAt(cell, 0) = ":" THEN Drop(cell, 1) ELSE cell
      b == IF a # <<>> /\ a[Len(a)] = ":" THEN Take(a, Len(a) - 1) ELSE a
  IN b # <<>> /\ \A k \in 1..Len(b) : b[k] = "-"

\* the alignment that the tokenizer reads from a separator cell
CellAlignment(cell) ==
  IF charAt(cell, 0) = ":" /\ cell[Len(cell)] = ":" THEN "center"
  ELSE IF charAt(cell, 0) = ":" THEN "left"
  ELSE IF cell[Len(cell)] = ":" THEN "right"
  ELSE "none"

\* the token of a line with two cells or more: a separator when every cell is
\* one, a row of cells otherwise
TableToken(cells) ==
  IF \A k \in 1..Len(cells) : IsSeparatorCell(cells[k])
  THEN Tok("table_separator", <<>>, <<>>,
           << <<"alignments", [k \in 1..Len(cells) |-> CellAlignment(cells[k])]>> >>)
  ELSE Tok("table_row", <<>>,
           [k \in 1..Len(cells) |->
              Tok("table_cell", <<>>, parseInlineTokens(cells[k]), <<>>)],
           <<>>)

\* parseBuiltIn on a line without braces: the tests for the empty line, the
\* code fence, the rule, the footnote definition, the blockquote, the heading
\* (whose id group needs a brace), the list item and the table, then the
\* inline text
parseBuiltIn(line) ==
  IF trim(line) = <<>> THEN <<Tok("empty_line", line, <<>>, <<>>)>>
  ELSE IF CodeFenceMatches(line) THEN <<CodeFenceToken(line)>>
  ELSE IF isHorizontalRule(trim(line))
  THEN <<Tok("hr", <<>>, <<>>, <<>>)>>
  ELSE IF FootnoteDefMatches(line) THEN <<FootnoteDefToken(line)>>
  ELSE IF charAt(line, 0) = ">" THEN <<BlockquoteToken(line, QuotePrefix(line))>>
  ELSE IF HeadingMatches(line, LeadingRunIn(line, {"#"}))
  THEN <<HeadingToken(line, LeadingRunIn(line, {"#"}))>>
  ELSE IF ListItemMatches(line) THEN <<ListItemToken(line)>>
  ELSE IF includes(line, "|") /\ Len(TableCells(line)) >= 2
  THEN <<TableToken(TableCells(line))>>
  ELSE parseInlineTokens(line)

\* hook.process of the hooks the model registers: the token with a record of
\* the hook and of the children it was given
\* Hooks with a field does return more than the token they were given: the
\* token with another type, or with a new child in place of its children
HookReturns(hook, token) ==
  IF "does" \notin DOMAIN hook THEN token
  ELSE CASE hook.does = "retype" -> [token EXCEPT !.type = "custom"]
         [] hook.does = "nest" ->
              [token EXCEPT !.children = <<Tok("nested", token.content, <<>>, <<>>)>>]
         [] OTHER -> token

HookProcess(hook, token) ==
  HookReturns(hook,
    [token EXCEPT !.hooked = Append(@, [name |-> hook.name, saw |-> token.children])])

RECURSIVE ApplyEach(_, _)
\* the for loop of applyHooks: every hook gets the output of the one before
ApplyEach(hs, token) ==
  IF hs = <<>> THEN token ELSE ApplyEach(Tail(hs), HookProcess(Head(hs), token))

\* applyHooks applying the hooks of the type last registered first
applyHooks_Reversed(hooks, token) ==
  IF token.type \notin DOMAIN hooks THEN token
  ELSE ApplyEach([k \in 1..Len(hooks[token.type]) |->
                    hooks[token.type][Len(hooks[token.type]) + 1 - k]], token)

\* applyHooks that goes on with the hooks of the type a hook gave the token
applyHooks_ThenNewType(hooks, token) ==
  IF token.type \notin DOMAIN hooks \/ hooks[token.type] = <<>> THEN token
  ELSE IF ApplyEach(hooks[token.type], token).type \in DOMAIN hooks \ {token.type}
  THEN ApplyEach(hooks[ApplyEach(hooks[token.type], token).type],
                 ApplyEach(hooks[token.type], token))
  ELSE ApplyEach(hooks[token.type], token)

applyHooks(hooks, token) ==
  IF token.type \notin DOMAIN hooks \/ hooks[token.type] = <<>> THEN token
  ELSE ApplyEach(hooks[token.type], token)

RECURSIVE processTokenRecursively(_, _)
\* processTokenRecursively applying the hooks of a token before its children
\* are processed
processTokenRecursively_ParentFirst(hooks, token) ==
  [applyHooks(hooks, token) EXCEPT
     !.children = [k \in 1..Len(token.children) |->
                     processTokenRecursively(hooks, token.children[k])]]

processTokenRecursively(hooks, token) ==
  applyHooks(hooks,
    [token EXCEPT !.children = [k \in 1..Len(token.children) |->
                                  processTokenRecursively(hooks, token.children[k])]])

\* result.map(token => this.processTokenRecursively(token))
ProcessAll(hooks, tokens) ==
  [k \in 1..Len(tokens) |-> processTokenRecursively(hooks, tokens[k])]

\* plugin.canHandle of the plugins the model registers
PluginCanHandle(plugin, line) ==
  CASE plugin.handles = "all" -> TRUE
    [] plugin.handles = "heading" -> charAt(line, 0) = "#"

\* plugin.parse when it returns tokens: a token of the plugin's own type
\* around the inline tokens of the line, made with the callback it is handed
PluginTokens(plugin, line) ==
  <<Tok(plugin.name, <<>>, parseInlineTokens(line), <<>>)>>

\* what TokenParser.parse returns, or that an exception left it
Parsed(tokens) == [thrown |-> FALSE, tokens |-> tokens]

ParseThrew == [thrown |-> TRUE, tokens |-> <<>>]

RECURSIVE TryPlugins(_, _, _)
\* TokenParser.parse stopping at the first plugin that can handle the line:
\* when it returns null the built-in parser is used
TryPlugins_FirstMatchOnly(ps, hooks, line) ==
  IF ps = <<>> THEN Parsed(ProcessAll(hooks, parseBuiltIn(line)))
  ELSE IF ~PluginCanHandle(Head(ps), line) THEN TryPlugins(Tail(ps), hooks, line)
  ELSE IF Head(ps).returns = "throws" THEN ParseThrew
  ELSE IF Head(ps).returns = "null" THEN Parsed(ProcessAll(hooks, parseBuiltIn(line)))
  ELSE Parsed(ProcessAll(hooks, PluginTokens(Head(ps), line)))

\* TokenParser.parse: the plugins in list order, then the built-in parser
TryPlugins(ps, hooks, line) ==
  IF ps = <<>> THEN Parsed(ProcessAll(hooks, parseBuiltIn(line)))
  ELSE IF ~PluginCanHandle(Head(ps), line) THEN TryPlugins(Tail(ps), hooks, line)
  ELSE IF Head(ps).returns = "throws" THEN ParseThrew
  ELSE IF Head(ps).returns = "null" THEN TryPlugins(Tail(ps), hooks, line)
  ELSE Parsed(ProcessAll(hooks, PluginTokens(Head(ps), line)))

RECURSIVE SortByPriority(_)
\* Array.prototype.sort with (a, b) => b.priority - a.priority: a stable sort
\* by descending priority
SortByPriority(ps) ==
  IF ps = <<>> THEN <<>>
  ELSE InsertByPriority(SortByPriority(Take(ps, Len(ps) - 1)), ps[Len(ps)])

\* addPlugin without the sort
addPlugin_Unsorted(ps, plugin) == Append(ps, plugin)

addPlugin(ps, plugin) == SortByPriority(Append(ps, plugin))

\* filter keeping the elements whose name differs
RECURSIVE WithoutName(_, _)
WithoutName(xs, name) ==
  IF xs = <<>> THEN <<>>
  ELSE (IF Head(xs).name # name THEN <<Head(xs)>> ELSE <<>>)
       \o WithoutName(Tail(xs), name)

removePlugin(ps, name) == WithoutName(ps, name)

\* the map without the entry of key t
MapDelete(hooks, t) == [u \in DOMAIN hooks \ {t} |-> hooks[u]]

\* the map with the entry of key t set
MapSet(hooks, t, hs) == [u \in DOMAIN hooks \cup {t} |-> IF u = t THEN hs ELSE hooks[u]]

addHook(hooks, hook) ==
  MapSet(hooks, hook.tokenType,
         Append(IF hook.tokenType \in DOMAIN hooks THEN hooks[hook.tokenType] ELSE <<>>,
                hook))

\* removeHook keeping the entry of the type when its list becomes empty
removeHook_KeepsEmptyEntry(hooks, tokenType, hookName) ==
  IF tokenType \notin DOMAIN hooks THEN hooks
  ELSE MapSet(hooks, tokenType, WithoutName(hooks[tokenType], hookName))

\* the entry of the type replaced by its filtered list, or deleted when empty
StoreFiltered(hooks, tokenType, filtered) ==
  IF filtered = <<>> THEN MapDelete(hooks, tokenType)
  ELSE MapSet(hooks, tokenType, filtered)

removeHook(hooks, tokenType, hookName) ==
  IF tokenType \notin DOMAIN hooks THEN hooks
  ELSE StoreFiltered(hooks, tokenType, WithoutName(hooks[tokenType], hookName))

\* the map a new TokenParser starts with
NoHooks == [u \in {} |-> <<>>]

(***************************************************************************)
(* Inputs of the model.                                                    *)
(***************************************************************************)
\* the lines fed to the parser
Lines ==
  { <<>>, <<" ">>, <<"a">>,
    <<Backtick, Backtick, Backtick>>,
    <<Backtick, Backtick, Backtick, Backtick>>,
    <<Backtick, Backtick, Backtick, "a">>,
    <<Tilde, Tilde, Tilde>>,
    <<Tilde, Tilde, Tilde, Tilde>>,
    <<"#", " ", "a">>,
    <<">", " ", "a">>,
    <<"-", " ", "a">>,
    <<"|", "a", "|">>,
    <<"|", "-", "|">>,
    <<"!", "[", "a", "]", "(", "b", ")">>,
    MULTI_START, MULTI_END }

\* the element types a caller may have registered a throwing hook for
ThrowTypes ==
  {"p", "h1", "code_block", "blockquote", "ul", "li", "table", "empty_line", "img"}

\* the constructor options (enableBlankLines, enableImages) and whether the
\* caller registered the multi-line processors: the default and its variations
Configs ==
  { [enableBlankLines |-> TRUE,  enableImages |-> TRUE,  custom |-> FALSE,
      taskList |-> FALSE],
    [enableBlankLines |-> FALSE, enableImages |-> TRUE,  custom |-> FALSE,
      taskList |-> FALSE],
    [enableBlankLines |-> TRUE,  enableImages |-> FALSE, custom |-> FALSE,
      taskList |-> FALSE],
    [enableBlankLines |-> TRUE,  enableImages |-> TRUE,  custom |-> TRUE,
      taskList |-> FALSE],
    [enableBlankLines |-> FALSE, enableImages |-> TRUE,  custom |-> TRUE,
      taskList |-> FALSE] }

(***************************************************************************)
(* The parser instance as a state machine.                                 *)
(***************************************************************************)
VARIABLES
  state,    \* this.state
  theme,    \* whether this.hooks holds the theme hook
  cfg,      \* the options the instance was constructed with
  op,       \* the last call made on the instance, or the step of parse() taken
  line,     \* the line given to the last feedLine call
  prevType, \* this.state.blockType before the last call
  result,   \* the ParseResult the last call returned
  thrown    \* whether the last call ended with an exception

\* the variables of the MarkdownParser instance and of the calls made on it
mdVars == <<state, theme, cfg, op, line, prevType, result, thrown>>

VARIABLES
  plugins,   \* TokenParser.plugins
  pluginLog, \* the registered plugins in the order they were given
  hooks,     \* TokenParser.hooks: token type -> list of hooks
  hookLog,   \* the registered hooks in the order they were given
  prevHooks, \* TokenParser.hooks before the last call
  call       \* the last call made on the TokenParser and what it returned

\* the variables of the TokenParser instance and of the calls made on it
tpVars == <<plugins, pluginLog, hooks, hookLog, prevHooks, call>>

vars == <<mdVars, tpVars>>

\* a call on the TokenParser: the method, its arguments, and for parse the
\* outcome
Call(method, l, tokenType, name, out) ==
  [method |-> method, line |-> l, tokenType |-> tokenType, name |-> name, out |-> out]

\* new TokenParser(config): the plugins sorted, every hook added
NewTokenParser(configPlugins) ==
  /\ plugins = SortByPriority(configPlugins)
  /\ pluginLog = configPlugins
  /\ hooks = NoHooks
  /\ hookLog = <<>>
  /\ prevHooks = NoHooks
  /\ call = Call("new", <<>>, "", "", Parsed(<<>>))

Cx(bad) == [cfg |-> cfg, bad |-> bad]

This == [state |-> state, theme |-> theme]

RECURSIVE TypesIn(_)
\* the types of the elements completed to build el; the paragraph inside an
\* unwrapped list item leaves only its content
TypesIn(el) ==
  {el.type} \cup (IF el.type = "li" THEN {"p"} ELSE {})
            \cup UNION {TypesIn(el.children[k]) : k \in 1..Len(el.children)}

\* the hooks one call can run: a hook throws only if it is called, so the
\* hook that throws is one for an element the call completes when none throws
Throwable(out) == {"none"} \cup (ThrowTypes \cap TypesIn(out.result.element))

\* a parse() call is between two of its steps
InParse == op \in {"parse:start", "parse:feed"} /\ ~thrown

\* parse() feeds the same line again when the last result has remainingInput
Pending == op = "parse:feed" /\ result.hasRemaining

\* a new MarkdownParser: the constructor puts the theme hook into the hooks
\* table unless enableThemeHook is false
NewParser ==
  /\ state = InitState
  /\ theme \in BOOLEAN
  /\ op = "new"
  /\ line = <<>>
  /\ prevType = "none"
  /\ result = Res("none")
  /\ thrown = FALSE

Init ==
  /\ state = InitState
  /\ theme \in BOOLEAN
  /\ cfg \in Configs
  /\ op = "new"
  /\ line = <<>>
  /\ prevType = "none"
  /\ result = Res("none")
  /\ thrown = FALSE
  /\ NewTokenParser(<<>>)

Apply(out, name, l) ==
  /\ Len(out.state.buffer) <= MaxBuf
  /\ state' = out.state
  /\ theme' = out.theme
  /\ result' = out.result
  /\ thrown' = out.thrown
  /\ op' = name
  /\ line' = l
  /\ prevType' = state.blockType
  /\ UNCHANGED <<cfg, tpVars>>

\* a caller streams a line to feedLine
FeedLine(l) ==
  /\ ~InParse
  /\ \E bad \in Throwable(feedLine(This, Cx("none"), l)) :
       Apply(feedLine(This, Cx(bad), l), "feedLine", l)

\* a caller completes the open block (completeCurrentBlock is public)
CompleteCurrentBlock ==
  /\ ~InParse
  /\ \E bad \in Throwable(completeCurrentBlock(This, Cx("none"))) :
       Apply(completeCurrentBlock(This, Cx(bad)), "completeCurrentBlock", <<>>)

Reset ==
  /\ ~InParse
  /\ Apply(Ret(resetState(This), Res("none")), "reset", <<>>)

\* parse(): resetState() before the first line
ParseStart ==
  /\ ~InParse
  /\ Apply(Ret(resetState(This), Res("none")), "parse:start", <<>>)

\* parse(): one iteration of the loop, on the next line of the document or
\* again on the line the last result asked to reprocess
ParseFeed(l) ==
  /\ InParse
  /\ Pending => l = line
  /\ \E bad \in Throwable(feedLine(This, Cx("none"), l)) :
       Apply(feedLine(This, Cx(bad), l), "parse:feed", l)

\* parse(): the document has no more lines, the open block is flushed
ParseFlush ==
  /\ InParse
  /\ ~Pending
  /\ \E bad \in Throwable(completeCurrentBlock(This, Cx("none"))) :
       Apply(completeCurrentBlock(This, Cx(bad)), "parse:flush", <<>>)

Next ==
  \/ \E l \in Lines : FeedLine(l)
  \/ CompleteCurrentBlock
  \/ Reset
  \/ ParseStart
  \/ \E l \in Lines : ParseFeed(l)
  \/ ParseFlush

Spec == Init /\ [][Next]_vars

TypeOK ==
  /\ state.blockType \in {"none", "paragraph", "code_block", "blockquote",
                          "list", "table", "custom_multi"}
  /\ Len(state.buffer) <= MaxBuf
  /\ result.type \in {"none", "exception", "need_more_lines", "need_next_token",
                      "complete"}

(***************************************************************************)
(* Vocabulary of the properties.  A property of a call relates the state   *)
(* before the call (unprimed) to the state and the result after it         *)
(* (primed).                                                               *)
(***************************************************************************)
\* the step is a feedLine call, made by a caller or by the loop of parse()
Fed == op' \in {"feedLine", "parse:feed"}

\* the step is a completeCurrentBlock call, made by a caller or by parse()
Flushed == op' \in {"completeCurrentBlock", "parse:flush"}

\* the line processor that claims line l in the current state, if any
Handler(l) == FirstHandler(LineProcessors(cfg), l, state)

\* el as the hooks in force before the call return it when none throws
Hooked(el) == [el EXCEPT !.themed = theme]

\* the call returned without a hook having thrown
NoHookError == ~thrown' /\ result'.error = "none"

\* the call appended the fed line to the buffer and asked for more lines
Appended ==
  /\ ~thrown'
  /\ result' = Res("need_more_lines")
  /\ state' = [state EXCEPT !.buffer = Append(@, line')]

\* the trimmed line is a non-empty run of the character c only
IsRunOf(l, c) == trim(l) # <<>> /\ LeadingRunIn(trim(l), {c}) = Len(trim(l))

OtherFence(c) == IF c = Backtick THEN Tilde ELSE Backtick

(***************************************************************************)
(* C1.  In Paragraph state a fed non-blank line that no line processor     *)
(* claims is never appended to the paragraph: the call returns the         *)
(* completed paragraph, built from the single buffered line, and hands the *)
(* fed line back as remainingInput.                                        *)
(***************************************************************************)
C1_ParagraphClosesAndReprocesses ==
  [][ (/\ Fed
       /\ state.blockType = "paragraph" /\ ~state.inCodeBlock
       /\ trim(line') # <<>>
       /\ Handler(line') = "none")
      => /\ ~thrown'
         /\ result'.type = "complete"
         /\ result'.element = Hooked(El("p", parseInline(state.buffer[1]), <<>>, <<>>))
         /\ result'.hasRemaining
         /\ result'.remainingInput = line'
         /\ state' = InitState ]_vars

(***************************************************************************)
(* C2.  A Table block whose buffer has fewer than two lines, or whose      *)
(* second line is not a separator, is never emitted as a table: when its   *)
(* completion is not aborted by a throwing hook, the call returns exactly  *)
(* the paragraph built from the first buffered line.                       *)
(***************************************************************************)
\* the step completes the open Table block: a flush, or a fed line without a
\* pipe that no custom processor claims
TableCompletion ==
  /\ state.blockType = "table" /\ ~state.inCodeBlock
  /\ \/ Flushed
     \/ /\ Fed
        /\ ~isTableLine(line')
        /\ Handler(line') \in {"none", "blank_line_handler"}

InvalidTable(buffer) == Len(buffer) < 2 \/ ~isTableSeparator(buffer[2])

C2_InvalidTableBecomesParagraph ==
  [][ (TableCompletion /\ InvalidTable(state.buffer))
      => /\ ~thrown'
         /\ result'.element.type # "table"
         /\ NoHookError =>
              /\ result'.type = "complete"
              /\ result'.element =
                   Hooked(El("p", parseInline(state.buffer[1]), <<>>, <<>>)) ]_vars

C2_Witness ==
  /\ op \in {"feedLine", "parse:feed", "completeCurrentBlock", "parse:flush"}
  /\ prevType = "table"
  /\ result.type = "complete"
  /\ result.element.type = "p"

(***************************************************************************)
(* C3.  While a code block opened by a fence of n characters is open, a    *)
(* fed line whose leading run of the fence character is shorter than n     *)
(* does not close the block: it is appended to the code buffer.            *)
(***************************************************************************)
C3_ShorterRunNeverCloses ==
  [][ (/\ Fed
       /\ state.inCodeBlock
       /\ LeadingRunIn(trim(line'), {state.codeBlockFence})
            < state.codeBlockFenceLength)
      => Appended ]_vars

(***************************************************************************)
(* C4.  A code block opened by a run of n backticks (or tildes) is closed  *)
(* neither by a line that begins with the other fence character nor by a   *)
(* line that is a run of more than n of the opening character: such a line *)
(* is appended to the code buffer.                                         *)
(***************************************************************************)
C4_OtherFenceOrLongerRunNeverCloses ==
  [][ (/\ Fed
       /\ state.inCodeBlock
       /\ \/ charAt(trim(line'), 0) = OtherFence(state.codeBlockFence)
          \/ /\ IsRunOf(line', state.codeBlockFence)
             /\ Len(trim(line')) > state.codeBlockFenceLength)
      => Appended ]_vars

C4_Witness ==
  /\ op \in {"feedLine", "parse:feed"}
  /\ prevType = "code_block"
  /\ state.inCodeBlock
  /\ charAt(trim(line), 0) = OtherFence(state.codeBlockFence)
  /\ FenceRun(line) >= 3
  /\ state.buffer[Len(state.buffer)] = line

(***************************************************************************)
(* C5.  As claimed: a line that is a run of the opening fence character    *)
(* longer than the opening run closes the open code block.                 *)
(***************************************************************************)
C5_LongerRunCloses ==
  [][ (/\ Fed
       /\ state.inCodeBlock
       /\ IsRunOf(line', state.codeBlockFence)
       /\ Len(trim(line')) > state.codeBlockFenceLength)
      => (thrown' \/ (result'.type = "complete" /\ ~state'.inCodeBlock)) ]_vars

(***************************************************************************)
(* C5, amended.  Of the lines that are a run of the opening fence          *)
(* character only, exactly the run of the opening length closes the code   *)
(* block; a shorter or a longer run is appended to the code buffer.        *)
(***************************************************************************)
C5_OnlyEqualRunCloses ==
  [][ (/\ Fed
       /\ state.inCodeBlock
       /\ IsRunOf(line', state.codeBlockFence))
      => IF Len(trim(line')) = state.codeBlockFenceLength
         THEN thrown' \/ (/\ result'.type = "complete"
                          /\ result'.element.type = "code_block"
                          /\ state' = InitState)
         ELSE Appended ]_vars

C5_Witness ==
  /\ op \in {"feedLine", "parse:feed"}
  /\ prevType = "code_block"
  /\ state.inCodeBlock
  /\ IsRunOf(line, state.codeBlockFence)
  /\ Len(trim(line)) > state.codeBlockFenceLength
  /\ state.buffer[Len(state.buffer)] = line

(***************************************************************************)
(* C6.  Inside a code capture feedLine consults no line processor and no   *)
(* block dispatch: every line that is not the closing fence, blank lines   *)
(* and lines a line processor would claim included, is appended verbatim   *)
(* to the code buffer, and nothing else changes.                           *)
(***************************************************************************)
C6_CodeCaptureBypassesProcessors ==
  [][ (Fed /\ state.inCodeBlock /\ ~ClosesFence(state, line'))
      => Appended /\ theme' = theme ]_vars

\* a line the multi-line processor claims outside a code capture sits in the
\* code buffer
C6_Witness ==
  /\ op \in {"feedLine", "parse:feed"}
  /\ prevType = "code_block"
  /\ state.inCodeBlock
  /\ cfg.custom
  /\ startsWith(trim(line), MULTI_START)
  /\ state.buffer[Len(state.buffer)] = line

(***************************************************************************)
(* C7.  If the input ends while a code block is open, the flush of parse() *)
(* pushes exactly one element, a code_block whose language tag is the      *)
(* first buffered line and whose content is the following lines joined by  *)
(* newlines (a flush that a throwing hook aborts pushes nothing: C10).     *)
(***************************************************************************)
LanguageOf(el) == IF el.attributes = <<>> THEN <<>> ELSE el.attributes[1][2]

C7_OpenCodeBlockFlushedAtEndOfInput ==
  [][ (op' = "parse:flush" /\ state.inCodeBlock)
      => /\ ~thrown'
         /\ Len(Pushed(result')) <= 1
         /\ NoHookError =>
              /\ Len(Pushed(result')) = 1
              /\ Pushed(result')[1].type = "code_block"
              /\ LanguageOf(Pushed(result')[1]) = state.buffer[1]
              /\ Pushed(result')[1].content = join(Tail(state.buffer), "\n")
              /\ state' = InitState ]_vars

C7_Witness ==
  /\ op = "parse:flush"
  /\ prevType = "code_block"
  /\ result.type = "complete"
  /\ result.element.type = "code_block"
  /\ LanguageOf(result.element) # <<>>
  /\ result.element.content # <<>>

(***************************************************************************)
(* C8.  As claimed: a blank line fed outside a code capture while a block  *)
(* is open completes the open block, whatever its type: the call leaves no *)
(* block open.                                                             *)
(***************************************************************************)
BlankFedOnOpenBlock ==
  /\ Fed
  /\ ~state.inCodeBlock
  /\ trim(line') = <<>>
  /\ state.blockType # "none"

C8_BlankLineCompletesAnyBlock ==
  [][ BlankFedOnOpenBlock
      => /\ ~thrown'
         /\ state'.blockType = "none"
         /\ state'.buffer = <<>> ]_vars

(***************************************************************************)
(* C8, amended.  A blank line fed outside a code capture closes an open    *)
(* paragraph or table, and closes an open blockquote or list when the      *)
(* blank-line processor is registered: the call resets the state and       *)
(* returns the element of the block, or the error variant when a hook      *)
(* throws.  Without the blank-line processor an open blockquote or list,   *)
(* and in every configuration a plugin-defined block, stays open: the      *)
(* state is unchanged and no element is returned.                          *)
(***************************************************************************)
ElementTypesOf(blockType) ==
  CASE blockType = "paragraph" -> {"p"}
    [] blockType = "table" -> {"table", "p"}
    [] blockType = "blockquote" -> {"blockquote"}
    [] blockType = "list" -> {"ul", "ol"}
    [] OTHER -> {}

C8_BlankLineCompletesBuiltInBlock ==
  [][ BlankFedOnOpenBlock
      => IF \/ state.blockType \in {"paragraph", "table"}
            \/ state.blockType \in {"blockquote", "list"} /\ cfg.enableBlankLines
         THEN /\ ~thrown'
              /\ state' = InitState
              /\ \/ /\ result'.type = "complete"
                    /\ result'.element.type \in ElementTypesOf(state.blockType)
                 \/ /\ result'.type = "need_next_token"
                    /\ result'.error # "none"
         ELSE /\ ~thrown'
              /\ state' = state
              /\ result'.element = NoElement ]_vars

C8_Witness ==
  /\ op \in {"feedLine", "parse:feed"}
  /\ trim(line) = <<>>
  /\ prevType = "blockquote"
  /\ result.type = "complete"
  /\ result.element.type = "blockquote"
  /\ state = InitState

(***************************************************************************)
(* C9.  As claimed: a blank line fed while no block is open emits no       *)
(* element.                                                                *)
(***************************************************************************)
BlankFedOnNoBlock ==
  /\ Fed
  /\ ~state.inCodeBlock
  /\ trim(line') = <<>>
  /\ state.blockType = "none"

EmittedKinds == {"p", "h1", "code_block", "blockquote", "ul", "table"}

C10_HookErrorsCaughtInFeedLine ==
  [][ (Fed /\ result'.error \in EmittedKinds)
      => /\ ~thrown'
         /\ state' = InitState
         /\ result'.type # "complete"
         /\ result'.element = NoElement ]_vars

(***************************************************************************)
(* C15: the state after a completed element.                               *)
(***************************************************************************)
\* C15 (as stated): after every feedLine call that returns a completed
\* element the parser state is the initial state: no block type, an empty
\* buffer, not inside a code capture, an empty list-indentation stack
C15_CompleteLeavesInitialState ==
  [][ (Fed /\ ~thrown' /\ result'.type = "complete") => state' = InitState ]_vars

\* C15 (amended): a feedLine call that returns an element completed by the
\* parser itself (completeElement: every built-in block and the blank-line
\* and image processors) leaves the initial state; whatever processor made
\* the element, no block is open and the buffer is empty afterwards
C15_CompleteLeavesNoOpenBlock ==
  [][ (Fed /\ ~thrown' /\ result'.type = "complete")
      => /\ state'.blockType = "none"
         /\ state'.buffer = <<>>
         /\ ~state'.inCodeBlock
         /\ (result'.element.type # "multi_block" => state' = InitState) ]_vars

\* a list was open, a blank line completed it and left the initial state
C15_Witness ==
  /\ op \in {"feedLine", "parse:feed"}
  /\ ~thrown
  /\ result.type = "complete"
  /\ result.element.type = "ul"
  /\ prevType = "list"
  /\ state = InitState

(***************************************************************************)
(* C20: plugin-defined blocks.                                             *)
(***************************************************************************)
\* the block types the built-in dispatch knows
BuiltInBlockTypes == {"paragraph", "code_block", "blockquote", "list", "table"}

\* C20: while blockType holds a value set by a plugin, every non-blank line
\* that no line processor claims is appended to the buffer and feedLine
\* answers need_more_lines, the block staying open
C20_PluginBlockKeepsAppending ==
  [][ (/\ Fed
       /\ state.blockType \notin BuiltInBlockTypes \cup {"none"}
       /\ trim(line') # <<>>
       /\ Handler(line') = "none")
      => /\ ~thrown'
         /\ result'.type = "need_more_lines"
         /\ result'.element = NoElement
         /\ state' = [state EXCEPT !.buffer = Append(state.buffer, line')] ]_vars

\* a heading line was appended to an open plugin-defined block
C20_Witness ==
  /\ op \in {"feedLine", "parse:feed"}
  /\ prevType = "custom_multi"
  /\ state.blockType = "custom_multi"
  /\ line = <<"#", " ", "a">>
  /\ Len(state.buffer) = 2
  /\ state.buffer[2] = line
  /\ result.type = "need_more_lines"

(***************************************************************************)
(* C16: parse(x) depends only on x and the constructor options.            *)
(***************************************************************************)
\* the documents parse() is compared on
Documents ==
  { <<"a">>, <<"#", " ", "a">>, <<"a", "\n", "\n", "#", " ", "a">> }

\* what parse(doc) returns on this instance when its hooks table holds the
\* theme hook iff t: parse() resets this.state first, the hooks table is all
\* it takes from the instance besides the constructor options
ParseNow(doc, t) == parseDocument(doc, Cx("none"), t).tokens

\* C16: the result of parse(x) on an instance depends only on x and on the
\* options given at construction: no feedLine, completeCurrentBlock, reset or
\* parse call on the instance changes what a later parse(x) returns
C16_ParseDependsOnlyOnTextAndConfig ==
  [][ \A doc \in Documents : ParseNow(doc, theme') = ParseNow(doc, theme) ]_vars

(***************************************************************************)
(* The parser with a caller's line processors, and their faults.           *)
(***************************************************************************)
\* the lines fed to a parser with the task-list processor
ProcessorLines ==
  { <<>>, <<"a">>, <<"#", " ", "a">>, <<"-", " ", "a">>,
    <<"-", " ", "[", "x", "]">>,
    <<"-", " ", "[", "x", "]", " ", "a">>,
    MULTI_START, MULTI_END }

\* parsers a caller added the task-list processor to, with and without the
\* multi-line processors
ProcessorConfigs ==
  { [enableBlankLines |-> TRUE, enableImages |-> TRUE, custom |-> FALSE,
      taskList |-> TRUE],
    [enableBlankLines |-> TRUE, enableImages |-> TRUE, custom |-> TRUE,
      taskList |-> TRUE] }

\* the processors a caller registers: their process() is the caller's code
CallerProcessors == {"task_list", "multi_line", "multi_end"}

ProcessorInit ==
  /\ NewParser
  /\ cfg \in ProcessorConfigs
  /\ NewTokenParser(<<>>)

\* the line goes to a caller's processor (feedLine lines 720-724)
ToCallerProcessor(l) == ~state.inCodeBlock /\ Handler(l) \in CallerProcessors

\* a caller streams a line to feedLine and the process() of the processor
\* that claims it throws
FeedLineThrowing(l) ==
  /\ ~InParse
  /\ ToCallerProcessor(l)
  /\ Apply(feedLine(This, Cx(Handler(l)), l), "feedLine", l)

\* parse(): an iteration of the loop in which the process() of the processor
\* that claims the line throws
ParseFeedThrowing(l) ==
  /\ InParse
  /\ Pending => l = line
  /\ ToCallerProcessor(l)
  /\ Apply(feedLine(This, Cx(Handler(l)), l), "parse:feed", l)

ProcessorNext ==
  \/ \E l \in ProcessorLines : FeedLine(l)
  \/ \E l \in ProcessorLines : FeedLineThrowing(l)
  \/ CompleteCurrentBlock
  \/ Reset
  \/ ParseStart
  \/ \E l \in ProcessorLines : ParseFeed(l)
  \/ \E l \in ProcessorLines : ParseFeedThrowing(l)
  \/ ParseFlush

ProcessorSpec == ProcessorInit /\ [][ProcessorNext]_vars

(***************************************************************************)
(* C11: a throwing processor callback.                                     *)
(***************************************************************************)
\* C11: when the callback of a caller's line processor throws on a line, no
\* exception leaves feedLine, so the loop of parse() goes on to the
\* remaining lines
C11_ProcessorErrorDoesNotAbort ==
  [][ (Fed /\ result'.error \in CallerProcessors) => ~thrown' ]_vars

(***************************************************************************)
(* C12: a processor that declines the line.                                *)
(***************************************************************************)
\* the processor's result has no element and asks for no more lines
Declines(out) ==
  /\ ~out.thrown
  /\ out.result.type \notin {"complete", "need_more_lines"}
  /\ out.result.element = NoElement

RECURSIVE Offered(_, _, _, _)
\* the outcome when the line is offered to each matching processor of ps in
\* turn until one does not decline, and to the built-in dispatch after them
Offered(ps, m, cx, l) ==
  IF ps = <<>> THEN Dispatch(m, cx, l)
  ELSE IF /\ canHandle(Head(ps).name, l, m.state)
          /\ ~Declines(process(Head(ps).name, m, cx, l))
       THEN process(Head(ps).name, m, cx, l)
       ELSE Offered(Tail(ps), m, cx, l)

\* the first matching processor declines the fed line
FirstDeclines(l) ==
  /\ ~state.inCodeBlock
  /\ Handler(l) # "none"
  /\ Declines(process(Handler(l), This, Cx("none"), l))

\* C12: when the first processor whose canHandle matches declines the line,
\* feedLine offers it to the next matching processor and finally to the
\* built-in dispatch: the call ends as that one ends
C12_DeclinedLineFallsThrough ==
  [][ (Fed /\ FirstDeclines(line'))
      => \E bad \in {"none"} \cup ThrowTypes :
           LET out == Offered(LineProcessors(cfg), This, Cx(bad), line')
           IN /\ state' = out.state
              /\ result' = out.result
              /\ thrown' = out.thrown ]_vars

(***************************************************************************)
(* The TokenParser instance as a state machine.                            *)
(***************************************************************************)
MaxPlugins == 3

MaxHooks == 2

\* the plugins a caller registers: two that return a token of their own, of
\* priorities 100 and 50, one of priority 100 that returns null, and one of
\* priority 50 for heading lines that throws
PluginPool ==
  { [name |-> "hi",  priority |-> 100, handles |-> "all",     returns |-> "tokens"],
    [name |-> "lo",  priority |-> 50,  handles |-> "all",     returns |-> "tokens"],
    [name |-> "nil", priority |-> 100, handles |-> "all",     returns |-> "null"],
    [name |-> "err", priority |-> 50,  handles |-> "heading", returns |-> "throws"] }

PluginNames == {p.name : p \in PluginPool}

HookNames == {"first", "second"}

HookTypes == {"text", "blockquote"}

\* the hooks a caller registers
HookPool == [name : HookNames, tokenType : HookTypes]

\* the lines given to TokenParser.parse
TokenLines == { <<>>, <<"a">>, <<"#", " ", "a">>, <<">", " ", "a">> }

\* the plugins given to the constructor
ConfigPlugins ==
  { <<>>,
    <<CHOOSE p \in PluginPool : p.name = "lo", CHOOSE p \in PluginPool : p.name = "hi">> }

TokenInit ==
  /\ NewParser
  /\ theme = TRUE
  /\ cfg = InnerCfg
  /\ \E c \in ConfigPlugins : NewTokenParser(c)

AddPlugin(p) ==
  /\ Len(plugins) < MaxPlugins
  /\ plugins' = addPlugin(plugins, p)
  /\ pluginLog' = Append(pluginLog, p)
  /\ prevHooks' = hooks
  /\ call' = Call("addPlugin", <<>>, "", p.name, Parsed(<<>>))
  /\ UNCHANGED <<hooks, hookLog, mdVars>>

RemovePlugin(name) ==
  /\ plugins' = removePlugin(plugins, name)
  /\ pluginLog' = SelectSeq(pluginLog, LAMBDA p : p.name # name)
  /\ prevHooks' = hooks
  /\ call' = Call("removePlugin", <<>>, "", name, Parsed(<<>>))
  /\ UNCHANGED <<hooks, hookLog, mdVars>>

AddHook(h) ==
  /\ Len(hookLog) < MaxHooks
  /\ hooks' = addHook(hooks, h)
  /\ hookLog' = Append(hookLog, h)
  /\ prevHooks' = hooks
  /\ call' = Call("addHook", <<>>, h.tokenType, h.name, Parsed(<<>>))
  /\ UNCHANGED <<plugins, pluginLog, mdVars>>

RemoveHook(tokenType, hookName) ==
  /\ hooks' = removeHook(hooks, tokenType, hookName)
  /\ hookLog' = SelectSeq(hookLog,
                          LAMBDA h : ~(h.tokenType = tokenType /\ h.name = hookName))
  /\ prevHooks' = hooks
  /\ call' = Call("removeHook", <<>>, tokenType, hookName, Parsed(<<>>))
  /\ UNCHANGED <<plugins, pluginLog, mdVars>>

\* TokenParser.parse(line)
Parse(l) ==
  /\ prevHooks' = hooks
  /\ call' = Call("parse", l, "", "", TryPlugins(plugins, hooks, l))
  /\ UNCHANGED <<plugins, pluginLog, hooks, hookLog, mdVars>>

TokenNext ==
  \/ \E p \in PluginPool : AddPlugin(p)
  \/ \E name \in PluginNames : RemovePlugin(name)
  \/ \E h \in HookPool : AddHook(h)
  \/ \E t \in HookTypes, n \in HookNames : RemoveHook(t, n)
  \/ \E l \in TokenLines : Parse(l)

TokenSpec == TokenInit /\ [][TokenNext]_vars

(***************************************************************************)
(* Vocabulary of the TokenParser properties.                               *)
(***************************************************************************)
\* the last call was parse(line) and it returned
ParseReturned == call.method = "parse" /\ ~call.out.thrown

\* registered plugin k matches the parsed line and does not return null
Candidate(k) ==
  /\ PluginCanHandle(pluginLog[k], call.line)
  /\ pluginLog[k].returns # "null"

\* no candidate comes before k: none has a greater priority, and none of the
\* same priority was added earlier
BestCandidate(k) ==
  /\ Candidate(k)
  /\ \A j \in 1..Len(pluginLog) :
       Candidate(j) => \/ pluginLog[j].priority < pluginLog[k].priority
                       \/ pluginLog[j].priority = pluginLog[k].priority /\ j >= k

\* the entries of ps of priority q, in their order
OfPriority(ps, q) == SelectSeq(ps, LAMBDA p : p.priority = q)

\* ps is in descending priority, candidates of the same priority in the
\* order they have in log
OrderedAs(ps, log) ==
  /\ \A i, j \in 1..Len(ps) : i < j => ps[i].priority >= ps[j].priority
  /\ \A q \in {log[k].priority : k \in 1..Len(log)} \cup {ps[k].priority : k \in 1..Len(ps)} :
       OfPriority(ps, q) = OfPriority(log, q)

RECURSIVE TokensIn(_)
\* the token and all its descendants
TokensIn(token) ==
  {token} \cup UNION {TokensIn(token.children[k]) : k \in 1..Len(token.children)}

\* every token of the trees the last parse returned
ReturnedTokens == UNION {TokensIn(call.out.tokens[k]) : k \in 1..Len(call.out.tokens)}

\* the names of the hooks in hs, in order
NamesOf(hs) == [k \in 1..Len(hs) |-> hs[k].name]

\* the registered hooks of the type, in registration order
RegisteredFor(type) == SelectSeq(hookLog, LAMBDA h : h.tokenType = type)

\* the list the map holds for the type, empty when it has no entry
HooksFor(map, type) == IF type \in DOMAIN map THEN map[type] ELSE <<>>

(***************************************************************************)
(* C13: which plugin's output parse returns.                               *)
(***************************************************************************)
\* C13: parse returns the output of the matching plugin of highest priority
\* that does not return null (of the earliest added among equals), and the
\* output of the built-in parser when every matching plugin returns null
C13_HighestPriorityNonNullPluginWins ==
  ParseReturned =>
    /\ \A k \in 1..Len(pluginLog) :
         BestCandidate(k) =>
           call.out.tokens = ProcessAll(hooks, PluginTokens(pluginLog[k], call.line))
    /\ (\A k \in 1..Len(pluginLog) : ~Candidate(k)) =>
         call.out.tokens = ProcessAll(hooks, parseBuiltIn(call.line))

\* a plugin of priority 100 returned null and the plugin of priority 50 was used
C13_Witness ==
  /\ ParseReturned
  /\ \E i, j \in 1..Len(plugins) :
       /\ plugins[i].returns = "null"
       /\ PluginCanHandle(plugins[i], call.line)
       /\ plugins[i].priority > plugins[j].priority
       /\ Len(call.out.tokens) = 1
       /\ call.out.tokens[1].type = plugins[j].name

(***************************************************************************)
(* C14: the order of the plugins and of the line processors.               *)
(***************************************************************************)
\* C14: after any registrations the plugins are in descending priority and
\* those of equal priority in the order they were added; likewise the line
\* processors after addLineProcessor
C14_DescendingPriorityTiesByInsertion ==
  /\ OrderedAs(plugins, pluginLog)
  /\ \A c \in Configs \cup ProcessorConfigs :
       OrderedAs(addLineProcessor(ConstructorProcessors(c), taskListProcessor),
                 Append(ConstructorProcessors(c), taskListProcessor))

\* three plugins, two of them of equal priority, added in another order than
\* the one they are consulted in
C14_Witness ==
  /\ Len(plugins) = 3
  /\ plugins # pluginLog
  /\ \E i \in 1..2 : /\ plugins[i].priority = plugins[i + 1].priority
                     /\ plugins[i].name # plugins[i + 1].name

(***************************************************************************)
(* C17: hooks run on the children first.                                   *)
(***************************************************************************)
\* C17: in every token tree parse returns, each hook applied to a token was
\* given the token with its children as they are after their own hooks
C17_HooksSeeProcessedChildren ==
  ParseReturned =>
    \A token \in ReturnedTokens :
      /\ \A k \in 1..Len(token.hooked) : token.hooked[k].saw = token.children
      /\ \A c \in 1..Len(token.children) :
           NamesOf(token.children[c].hooked)
             = NamesOf(RegisteredFor(token.children[c].type))

\* a hook ran on a token one of whose children a hook had changed
C17_Witness ==
  /\ ParseReturned
  /\ \E token \in ReturnedTokens :
       /\ token.hooked # <<>>
       /\ \E c \in 1..Len(token.children) : token.children[c].hooked # <<>>

(***************************************************************************)
(* C18: hooks of one type run in registration order.                       *)
(***************************************************************************)
\* C18: the hooks registered for a token's type are applied to it in
\* registration order, each to the output of the one before
C18_HooksInRegistrationOrder ==
  ParseReturned =>
    \A token \in ReturnedTokens :
      NamesOf(token.hooked) = NamesOf(RegisteredFor(token.type))

\* two hooks of different names ran on one token
C18_Witness ==
  /\ ParseReturned
  /\ \E token \in ReturnedTokens :
       /\ Len(token.hooked) = 2
       /\ token.hooked[1].name # token.hooked[2].name

(***************************************************************************)
(* C19: removeHook.                                                        *)
(***************************************************************************)
\* C19: removeHook(type, name) removes the hooks of that type and name and
\* no other hook, and the registry never maps a type to an empty list
C19_RemoveHookExactAndNoEmptyList ==
  /\ call.method = "removeHook" =>
       \A t \in HookTypes :
         HooksFor(hooks, t) =
           IF t = call.tokenType
           THEN SelectSeq(HooksFor(prevHooks, t), LAMBDA h : h.name # call.name)
           ELSE HooksFor(prevHooks, t)
  /\ \A t \in DOMAIN hooks : hooks[t] # <<>>

\* the last hook of a type was removed while another type keeps its hook
C19_Witness ==
  /\ call.method = "removeHook"
  /\ HooksFor(prevHooks, call.tokenType) # <<>>
  /\ call.tokenType \notin DOMAIN hooks
  /\ hooks # NoHooks

(***************************************************************************)
(* The parser fed indented lines: blockquotes and lists.                   *)
(***************************************************************************)
\* the lines fed to follow an open blockquote or list
BlockLines ==
  { <<>>, <<"a">>, <<" ", "a">>, <<"\t", "a">>,
    <<"-", " ", "a">>, <<" ", " ", "-", " ", "a">>,
    <<">", " ", "a">>, <<"#", " ", "a">>,
    <<Backtick, Backtick, Backtick>>, <<"|", "a", "|">> }

\* new MarkdownParser(), with or without the theme hook
BlockInit ==
  /\ NewParser
  /\ cfg = [enableBlankLines |-> TRUE, enableImages |-> TRUE, custom |-> FALSE,
            taskList |-> FALSE]
  /\ NewTokenParser(<<>>)

BlockNext ==
  \/ \E l \in BlockLines : FeedLine(l)
  \/ CompleteCurrentBlock
  \/ Reset
  \/ ParseStart
  \/ \E l \in BlockLines : ParseFeed(l)
  \/ ParseFlush

BlockSpec == BlockInit /\ [][BlockNext]_vars

\* a non-blank line that no line processor claims is fed while a block of
\* the given type is open
FedOnOpen(blockType) ==
  /\ Fed
  /\ state.blockType = blockType /\ ~state.inCodeBlock
  /\ trim(line') # <<>>
  /\ Handler(line') = "none"

\* the call completed the open block into an element of one of the types and
\* handed the fed line back
CompletedAndReprocessed(types) ==
  /\ result'.type = "complete"
  /\ result'.element.type \in types
  /\ result'.hasRemaining
  /\ result'.remainingInput = line'
  /\ state' = InitState

(***************************************************************************)
(* C21: lazy continuation of a blockquote.                                 *)
(***************************************************************************)
\* the line begins a heading, a list item or a code fence
BeginsBlock(l) == isHeading(trim(l)) \/ getListInfo(l).found \/ isCodeBlockStart(l)

\* C21: while a blockquote is open, a non-blank line without the quote
\* prefix is appended to the buffer when it begins no heading, list item or
\* code fence, and otherwise completes the blockquote and is reprocessed
C21_LazyBlockquoteContinuation ==
  [][ (FedOnOpen("blockquote") /\ ~isBlockquote(line') /\ NoHookError)
      => IF BeginsBlock(line') THEN CompletedAndReprocessed({"blockquote"})
         ELSE Appended ]_vars

\* a table line was appended to an open blockquote by lazy continuation
C21_Witness ==
  /\ op \in {"feedLine", "parse:feed"}
  /\ prevType = "blockquote"
  /\ state.blockType = "blockquote"
  /\ line = <<"|", "a", "|">>
  /\ state.buffer = << <<"a">>, line >>
  /\ result.type = "need_more_lines"

(***************************************************************************)
(* C22: which lines an open list takes.                                    *)
(***************************************************************************)
\* C22: while a list is open, a non-blank line is appended to the buffer if
\* and only if it begins with a list marker or is indented deeper than the
\* current level of the list; any other line completes the list
C22_ListTakesMarkersAndDeeperLines ==
  [][ (FedOnOpen("list") /\ NoHookError)
      => IF \/ getListInfo(line').found
            \/ LeadingRunIn(line', Whitespace) > currentLevel(state)
         THEN Appended
         ELSE CompletedAndReprocessed({"ul", "ol"}) ]_vars

(***************************************************************************)
(* C23: how a completed list is cut into items.                            *)
(***************************************************************************)
\* the buffered lines an item starts at: the first, and every later marker
\* line indented no deeper than the first
ItemStarts(buffer) ==
  {1} \cup {k \in 2..Len(buffer) :
              /\ getListInfo(buffer[k]).found
              /\ getListInfo(buffer[k]).indent <= getListInfo(buffer[1]).indent}

\* the lines of the item that starts at line k: up to the next start
ItemLines(buffer, k) ==
  SubSeq(buffer, k,
         IF \E j \in ItemStarts(buffer) : j > k
         THEN (CHOOSE j \in ItemStarts(buffer) :
                 j > k /\ \A i \in ItemStarts(buffer) : i > k => i >= j) - 1
         ELSE Len(buffer))

\* the number of starts up to line k
ItemIndex(buffer, k) == Cardinality({j \in ItemStarts(buffer) : j <= k})

\* the step completed the open list into its element
ListCompleted ==
  /\ Fed \/ Flushed
  /\ state.blockType = "list" /\ ~state.inCodeBlock
  /\ ~thrown'
  /\ result'.type = "complete"
  /\ result'.element.type \in {"ul", "ol"}

\* C23: a completed list has one item per start line, and each item is made
\* of its start line and the buffered lines up to the next start (whichever
\* hook the caller registered to throw: one that throws inside an item
\* empties the item, it does not move lines)
C23_ItemsSplitAtOuterMarkers ==
  [][ ListCompleted
      => /\ Len(result'.element.children) = Cardinality(ItemStarts(state.buffer))
         /\ \E bad \in {"none"} \cup ThrowTypes :
              \A k \in ItemStarts(state.buffer) :
                result'.element.children[ItemIndex(state.buffer, k)]
                  = createListItem(ItemLines(state.buffer, k), Cx(bad)).element ]_vars

\* a list of two buffered lines was completed into one item: the second
\* line, a marker indented deeper than the first, stayed in the first item
C23_Witness ==
  /\ op \in {"feedLine", "parse:feed", "completeCurrentBlock", "parse:flush"}
  /\ prevType = "list"
  /\ result.type = "complete"
  /\ result.element.type = "ul"
  /\ Len(result.element.children) = 1
  /\ Len(result.element.children[1].children) = 2

(***************************************************************************)
(* parseInline called on one text: the text is drawn at the start, the     *)
(* call scans it. The texts are every string up to MaxText characters over *)
(* the characters of the inline syntax, and longer texts of the forms that *)
(* the constructs take.                                                    *)
(***************************************************************************)
MaxText == 3

\* the characters of the texts enumerated in full: the delimiters of the
\* inline syntax, a letter, a space
InlineChars ==
  {Backslash, "*", "_", Tilde, "^", "=", Backtick, "[", "]", "(", ")", "!",
   "@", "a", " "}

\* the characters of InlineChars without a meaning in the inline syntax
\* unless a bracket is next to them
PlainChars == {"a", " ", "!", "(", ")"}

StringsOver(chars, lo, hi) == UNION { [1..n -> chars] : n \in lo..hi }

PlainTexts == StringsOver(PlainChars, 1, MaxText)

PlainWords == { <<"a">>, <<"b">>, <<"a", "b">>, <<"a", " ", "b">> }

\* text between an opening and a closing delimiter
Wrapped(open, x, close) == open \o x \o close

Stars(n) == [k \in 1..n |-> "*"]

Underscores(n) == [k \in 1..n |-> "_"]

\* the delimiters of the constructs with content, each with its closer
Delimiters ==
  { <<"*">>, <<"_">>, <<Tilde>>, <<"^">>, <<Backtick>>, Stars(2),
    Underscores(2), <<Tilde, Tilde>>, <<"=", "=">> }

\* text around a cursor marker, and two markers in a row
CursorTexts ==
  { CursorMarker, <<"a">> \o CursorMarker, CursorMarker \o <<"b">>,
    <<"a">> \o CursorMarker \o <<"b">>, CursorMarker \o CursorMarker }

\* the places a cursor marker can stand in: between the delimiters of a
\* construct, in the text, the url or the alternative text of a link or image
CursorPlaces(c) ==
  { Wrapped(d, c, d) : d \in Delimiters }
  \cup { <<"[">> \o c \o <<"]", "(", "b", ")">>,
         <<"[", "a", "]", "(">> \o c \o <<")">>,
         <<"!", "[">> \o c \o <<"]", "(", "b", ")">>,
         <<"!", "[", "a", "]", "(">> \o c \o <<")">>,
         <<"[", "^">> \o c \o <<"]">> }

\* an escaped delimiter before, inside and behind a construct of the same
\* delimiter
EscapedPlaces(d) ==
  { <<Backslash>> \o d \o <<"a">> \o d,
    d \o <<Backslash>> \o d \o d,
    d \o <<"a", Backslash>> \o d \o <<"b">> \o d,
    d \o <<"a">> \o d \o <<Backslash>> \o d }

InlineSamples ==
  { Wrapped(Stars(3), x, Stars(3)) : x \in PlainTexts \cup PlainWords }
  \cup { Wrapped(Underscores(3), x, Underscores(3)) : x \in PlainTexts \cup PlainWords }
  \cup { Stars(2) \o x \o Stars(3) \o y \o Stars(1) : x, y \in PlainWords }
  \cup { d \o x : d \in Delimiters, x \in PlainWords }
  \cup { d \o x \o <<Head(d)>> : d \in Delimiters, x \in PlainWords }
  \cup CursorTexts
  \cup UNION { CursorPlaces(c) : c \in CursorTexts }
  \cup UNION { EscapedPlaces(d) : d \in Delimiters }

InlineTexts == StringsOver(InlineChars, 0, MaxText) \cup InlineSamples

\* a TokenParser module loaded and a text to parse chosen
InlineInit ==
  /\ NewParser
  /\ theme = TRUE
  /\ cfg = InnerCfg
  /\ plugins = <<>>
  /\ pluginLog = <<>>
  /\ hooks = NoHooks
  /\ hookLog = <<>>
  /\ prevHooks = NoHooks
  /\ \E s \in InlineTexts : call = Call("new", s, "", "", Parsed(<<>>))

\* parseInline(text) on the text chosen
ParseInline ==
  /\ call.method = "new"
  /\ call' = Call("parseInline", call.line, "", "", Parsed(parseInlineTokens(call.line)))
  /\ UNCHANGED <<plugins, pluginLog, hooks, hookLog, prevHooks, mdVars>>

InlineNext == ParseInline

InlineSpec == InlineInit /\ [][InlineNext]_vars

\* parseInline was called on text and returned tokens
InlineParsed == call.method = "parseInline"

text == call.line

tokens == call.out.tokens

RECURSIVE IsEscaped(_, _)
\* whether the character at index p of s is escaped: a backslash that is not
\* escaped itself stands before it
IsEscaped(s, p) == p >= 1 /\ s[p] = Backslash /\ ~IsEscaped(s, p - 1)

\* s with character c at index p
Replaced(s, p, c) == [s EXCEPT ![p + 1] = c]

RECURSIVE Renamed(_, _, _)
\* the tokens ts with every text token for the one character from standing
\* for the character to
Renamed(ts, from, to) ==
  [k \in 1..Len(ts) |->
     IF ts[k].type = "text" /\ ts[k].content = <<from>> THEN TextToken(<<to>>)
     ELSE [ts[k] EXCEPT !.children = Renamed(@, from, to)]]

\* a letter that no text of the model holds
Neutral == "z"

\* C24: a backslash-escaped character is always a text token of its own and
\* plays no part in the syntax, wherever it stands: the tokens of a text are
\* those of the text with a neutral letter in the place of the escaped
\* character, with the character in the place of that letter
C24_EscapedCharacterIsLiteralText ==
  InlineParsed
    => \A p \in 1..(Len(text) - 1) :
         IsEscaped(text, p)
           => tokens = Renamed(parseInlineTokens(Replaced(text, p, Neutral)),
                               Neutral, text[p + 1])

\* the characters that begin or end a construct of the inline syntax
SyntaxChars ==
  {Backslash, "*", "_", Tilde, "^", "=", "[", "]", "<", ":", "@", Backtick}

IsPlain(s) == \A k \in 1..Len(s) : s[k] \notin SyntaxChars

\* C25 as stated: for every text without a character of the inline syntax,
\* the empty text too, parseInline returns exactly one text token whose
\* content is the text
C25_PlainTextIsOneTextToken ==
  (InlineParsed /\ IsPlain(text)) => tokens = <<TextToken(text)>>

\* C25: for every text that is not empty and holds no character of the
\* inline syntax, parseInline returns exactly one text token whose content is
\* the text; for the empty text it returns no token
C25_NonEmptyPlainTextIsOneTextToken ==
  (InlineParsed /\ IsPlain(text))
    => tokens = IF text = <<>> THEN <<>> ELSE <<TextToken(text)>>

\* a plain text with an exclamation mark and parentheses was parsed into one
\* text token
C25_Witness ==
  /\ InlineParsed
  /\ IsPlain(text)
  /\ {"!", "(", ")"} \subseteq {text[k] : k \in 1..Len(text)}
  /\ tokens = <<TextToken(text)>>

Bold(children) == Tok("bold", <<>>, children, <<>>)

Italic(children) == Tok("italic", <<>>, children, <<>>)

\* s without its first n and its last n characters
Middle(s, n) == SubSeq(s, n + 1, Len(s) - n)

\* whether s is a plain text that is not empty between the delimiters open
\* and close
IsWrapped(s, open, close) ==
  /\ Len(s) > Len(open) + Len(close)
  /\ Take(s, Len(open)) = open
  /\ Drop(s, Len(s) - Len(close)) = close
  /\ IsPlain(SubSeq(s, Len(open) + 1, Len(s) - Len(close)))

\* C26: a plain text x that is not empty between three asterisks on each
\* side is one bold token whose only child is an italic token whose only
\* child is the text token x
C26_TripleAsteriskIsBoldAroundItalic ==
  (InlineParsed /\ IsWrapped(text, Stars(3), Stars(3)))
    => tokens = <<Bold(<<Italic(<<TextToken(Middle(text, 3))>>)>>)>>

\* a text of several characters between three asterisks was parsed into
\* bold around italic around the text
C26_Witness ==
  /\ InlineParsed
  /\ IsWrapped(text, Stars(3), Stars(3))
  /\ Len(Middle(text, 3)) >= 2
  /\ tokens = <<Bold(<<Italic(<<TextToken(Middle(text, 3))>>)>>)>>

\* C27: a plain text x that is not empty between three underscores on each
\* side is one bold token whose only child is an italic token whose only
\* child is the text token x, as for the asterisks
C27_TripleUnderscoreIsBoldAroundItalic ==
  (InlineParsed /\ IsWrapped(text, Underscores(3), Underscores(3)))
    => tokens = <<Bold(<<Italic(<<TextToken(Middle(text, 3))>>)>>)>>

\* C28: bold text a between pairs of asterisks with italic text b between
\* asterisks right behind it is a bold token with the text a followed by an
\* italic token with the text b
C28_BoldThenItalic ==
  InlineParsed
    => \A a, b \in PlainWords :
         text = Stars(2) \o a \o Stars(3) \o b \o Stars(1)
           => tokens = <<Bold(<<TextToken(a)>>), Italic(<<TextToken(b)>>)>>

\* the indexes of the cursor markers of s that are not escaped and do not
\* stand right behind another cursor marker
MarkerIndexes(s) ==
  { p \in 0..(Len(s) - 2) :
      /\ sliceEquals(s, p, CursorMarker)
      /\ ~IsEscaped(s, p)
      /\ ~(p >= 2 /\ sliceEquals(s, p - 2, CursorMarker)) }

\* the tokens that a link keeps for its href
HrefTokens(t) ==
  IF t.type = "link" /\ t.metadata[2][1] = "hrefTokens" THEN t.metadata[2][2]
  ELSE <<>>

RECURSIVE CursorTokensIn(_)
\* the number of cursor tokens among ts, their children and the href tokens
\* of their links
CursorTokensIn(ts) ==
  IF ts = <<>> THEN 0
  ELSE (IF Head(ts).type = "cursor" THEN 1 ELSE 0)
       + CursorTokensIn(Head(ts).children)
       + CursorTokensIn(HrefTokens(Head(ts)))
       + CursorTokensIn(Tail(ts))

\* C29: every cursor marker that is not escaped and does not stand right
\* behind another marker produces a cursor token at the top level, among the
\* children of a token or among the href tokens of a link: the output tree
\* has at least as many cursor tokens as the text has such markers
C29_EveryCursorMarkerYieldsCursorToken ==
  InlineParsed => CursorTokensIn(tokens) >= Cardinality(MarkerIndexes(text))

\* the delimiters that open a construct, the bracket of the link among them
Openers == Delimiters \cup { <<"[">> }

\* what closes the construct that opener opens
Closer(opener) == IF opener = <<"[">> THEN <<"]">> ELSE opener

\* whether s begins with opener and holds no closer for it behind the opener
UnclosedOpener(s, opener) ==
  /\ sliceEquals(s, 0, opener)
  /\ indexOf(s, Closer(opener), Len(opener)) = -1

\* the tokens ts, which begin with a text token, without the first character
\* of its content
WithoutFirstCharacter(ts) ==
  IF Len(ts[1].content) = 1 THEN Tail(ts)
  ELSE <<[ts[1] EXCEPT !.content = Tail(@)]>> \o Tail(ts)

\* the tokens begin with literal text that begins with prefix, and are
\* otherwise those of the text behind its first character
LiteralThenRest(prefix) ==
  /\ tokens # <<>>
  /\ tokens[1].type = "text"
  /\ sliceEquals(tokens[1].content, 0, prefix)
  /\ WithoutFirstCharacter(tokens) = parseInlineTokens(Tail(text))

Meta(token, key, none) ==
  IF \E k \in 1..Len(token.metadata) : token.metadata[k][1] = key
  THEN token.metadata[CHOOSE k \in 1..Len(token.metadata) :
                        token.metadata[k][1] = key][2]
  ELSE none

\* the characters that escapeMarkdown puts a backslash before
EscapedChars ==
  {Backslash, Backtick, "*", "_", "{", "}", "[", "]", "(", ")", "#", "+", "-",
   "!", Tilde, "^", "=", "|"}

RECURSIVE escapeMarkdown(_)
escapeMarkdown(s) ==
  IF s = <<>> THEN <<>>
  ELSE (IF Head(s) \in EscapedChars THEN <<Backslash, Head(s)>> ELSE <<Head(s)>>)
       \o escapeMarkdown(Tail(s))

RECURSIVE toString(_)
\* the decimal digits of a natural number
toString(n) ==
  IF n < 10 THEN <<DigitChars[n + 1]>>
  ELSE toString(n \div 10) \o <<DigitChars[(n % 10) + 1]>>

\* String.prototype.repeat of a one-character string
repeat(c, n) == [k \in 1..n |-> c]

RECURSIVE joinWith(_, _)
\* Array.prototype.join of strings with the separator sep
joinWith(ls, sep) ==
  IF ls = <<>> THEN <<>>
  ELSE IF Len(ls) = 1 THEN ls[1]
  ELSE ls[1] \o sep \o joinWith(Tail(ls), sep)

\* the separator cell written for an alignment
SeparatorFor(alignment) ==
  CASE alignment = "center" -> <<":", "-", "-", "-", ":">>
    [] alignment = "right" -> <<"-", "-", "-", ":">>
    [] alignment = "left" -> <<":", "-", "-", "-">>
    [] OTHER -> <<"-", "-", "-">>

\* the heading level of a heading token type
HeadingLevel(type) == CHOOSE level \in 1..6 : HeadingType(level) = type

\* a link or an image around its text: the title is written only when it is
\* not empty, and the tokenizer of the model makes none
LinkText(token, inner, target) ==
  <<"[">> \o inner \o <<"]", "(">> \o target
  \o (IF Meta(token, "title", <<>>) # <<>>
      THEN <<" ", "\"">> \o Meta(token, "title", <<>>) \o <<"\"">> ELSE <<>>)
  \o <<")">>

\* formatHeadingId
formatHeadingId(token) ==
  IF Meta(token, "id", <<>>) # <<>>
  THEN <<" ", "{", "#">> \o Meta(token, "id", <<>>) \o <<"}">> ELSE <<>>

RECURSIVE formatToken(_)

RECURSIVE format(_)
\* format(tokens): tokens.map(formatToken).join('')
format(ts) == IF ts = <<>> THEN <<>> ELSE formatToken(Head(ts)) \o format(Tail(ts))

\* formatChildren
formatChildren(token) == format(token.children)

formatToken(token) ==
  CASE token.type = "text" -> escapeMarkdown(token.content)
    [] token.type = "bold" -> <<"*", "*">> \o formatChildren(token) \o <<"*", "*">>
    [] token.type = "italic" -> <<"*">> \o formatChildren(token) \o <<"*">>
    [] token.type = "strikethrough" ->
         <<Tilde, Tilde>> \o token.content \o <<Tilde, Tilde>>
    [] token.type = "highlight" -> <<"=", "=">> \o token.content \o <<"=", "=">>
    [] token.type = "subscript" -> <<Tilde>> \o token.content \o <<Tilde>>
    [] token.type = "superscript" -> <<"^">> \o token.content \o <<"^">>
    [] token.type = "cursor" -> CursorMarker \o token.content
    [] token.type = "inline_code" -> <<Backtick>> \o token.content \o <<Backtick>>
    [] token.type = "code_fence" ->
         <<Backtick, Backtick, Backtick>> \o Meta(token, "lang", <<>>)
    [] token.type = "link" ->
         LinkText(token, formatChildren(token), Meta(token, "href", <<>>))
    [] token.type = "image" ->
         <<"!">> \o LinkText(token, formatChildren(token), Meta(token, "src", <<>>))
    [] token.type \in {"h1", "h2", "h3", "h4", "h5", "h6"} ->
         repeat("#", HeadingLevel(token.type)) \o <<" ">>
         \o formatChildren(token) \o formatHeadingId(token)
    [] token.type = "blockquote" ->
         repeat(">", Meta(token, "level", 1)) \o <<" ">> \o formatChildren(token)
    [] token.type = "hr" -> <<"-", "-", "-">>
    [] token.type = "unordered_list_item" ->
         repeat(" ", Meta(token, "indent", 0)) \o <<"-", " ">>
         \o formatChildren(token)
    [] token.type = "ordered_list_item" ->
         repeat(" ", Meta(token, "indent", 0))
         \o toString(IF Meta(token, "start", 0) = 0 THEN 1 ELSE Meta(token, "start", 0))
         \o <<".", " ">> \o formatChildren(token)
    [] token.type = "task_list_item" ->
         repeat(" ", Meta(token, "indent", 0))
         \o <<"-", " ", "[", IF Meta(token, "checked", FALSE) THEN "x" ELSE " ", "]", " ">>
         \o formatChildren(token)
    [] token.type = "table_row" ->
         <<"|", " ">>
         \o joinWith([k \in 1..Len(token.children) |-> formatToken(token.children[k])],
                     <<" ", "|", " ">>)
         \o <<" ", "|">>
    [] token.type = "table_cell" -> formatChildren(token)
    [] token.type = "table_separator" ->
         <<"|", " ">>
         \o joinWith([k \in 1..Len(Meta(token, "alignments", <<>>)) |->
                        SeparatorFor(Meta(token, "alignments", <<>>)[k])],
                     <<" ", "|", " ">>)
         \o <<" ", "|">>
    [] token.type = "footnote_ref" -> <<"[", "^">> \o token.content \o <<"]">>
    [] token.type = "footnote_def" ->
         <<"[", "^">> \o Meta(token, "id", <<>>) \o <<"]", ":", " ">>
         \o formatChildren(token)
    [] token.type = "empty_line" -> token.content
    [] OTHER -> IF token.content # <<>> THEN token.content ELSE formatChildren(token)

(***************************************************************************)
(* parse called on one line, then MarkdownFormatter.format on the tokens   *)
(* it returned. The lines are those of parseInline, every string up to     *)
(* MaxText characters over the characters that begin a block, and the      *)
(* block forms around short inline texts.                                  *)
(***************************************************************************)
LineChars == {"#", ">", "-", "+", "|", "1", "0", ".", ":", " ", "a", "!", "*", Backtick}

\* inline texts inside the block forms
InnerTexts ==
  { <<"a">>, <<"a", "!">>, <<"a", " ", "b">>, <<"*", "a", "*">>,
    <<"*", "*", "a", "*", "*">>, <<Backtick, "a", Backtick>>, <<"@", "!">>,
    <<Backtick, "a", "@", "!", Backtick>> }

\* what a line begins with when it is a heading, a blockquote, a list item
\* or a footnote definition
BlockPrefixes ==
  { <<"#", " ">>, <<"#", "#", " ">>, <<">", " ">>, <<">", ">", " ">>,
    <<"-", " ">>, <<" ", " ", "-", " ">>, <<"*", " ">>, <<"+", " ">>,
    <<"1", ".", " ">>, <<"0", ".", " ">>, <<"1", "2", ".", " ">>,
    <<"-", " ", "[", "x", "]", " ">>, <<"-", " ", "[", " ", "]", " ">>,
    <<"1", ".", " ", "[", "X", "]", " ">>, <<"[", "^", "a", "]", ":", " ">> }

Fence == <<Backtick, Backtick, Backtick>>

LineSamples ==
  { p \o x : p \in BlockPrefixes, x \in InnerTexts }
  \cup { <<"|">> \o x \o <<"|">> \o y \o <<"|">> : x, y \in InnerTexts }
  \cup { <<"|", "-", "|", "-", "|">>, <<"|", ":", "-", "|", "-", ":", "|", ":", "-", ":", "|">>,
         <<"-", "|", "-">>, Fence, Fence \o <<"a">>, Fence \o <<" ", "a", " ">>,
         Fence \o <<Backtick>>, <<"-", " ", "-", " ", "-">>, <<"_", "_", "_">>,
         <<"*", "*", "*", "*">>, <<" ", " ">>, <<"\t">> }

LineTexts == InlineTexts \cup StringsOver(LineChars, 0, MaxText) \cup LineSamples

\* the module loaded and a line to parse chosen
LineInit ==
  /\ NewParser
  /\ theme = TRUE
  /\ cfg = InnerCfg
  /\ plugins = <<>>
  /\ pluginLog = <<>>
  /\ hooks = NoHooks
  /\ hookLog = <<>>
  /\ prevHooks = NoHooks
  /\ \E s \in LineTexts : call = Call("new", s, "", "", Parsed(<<>>))

\* parse(line) of the module, which is parseBuiltIn(line)
ParseLine ==
  /\ call.method = "new"
  /\ call' = Call("parseBuiltIn", call.line, "", "", Parsed(parseBuiltIn(call.line)))
  /\ UNCHANGED <<plugins, pluginLog, hooks, hookLog, prevHooks, mdVars>>

\* new MarkdownFormatter().format(tokens) on the tokens parse returned: the
\* call keeps the tokens it was given and holds the text it returned
Format ==
  /\ call.method = "parseBuiltIn"
  /\ call' = Call("format", format(call.out.tokens), "", "", call.out)
  /\ UNCHANGED <<plugins, pluginLog, hooks, hookLog, prevHooks, mdVars>>

LineNext == ParseLine \/ Format

LineSpec == LineInit /\ [][LineNext]_vars

\* parse was called on a line and returned tokens
LineParsed == call.method = "parseBuiltIn"

\* format was called on the tokens of a parsed line and returned the text
\* call.line
Formatted == call.method = "format"

RECURSIVE Flatten(_)
\* the tokens ts, their descendants and the href tokens of their links, in
\* the order of the tree
Flatten(ts) ==
  IF ts = <<>> THEN <<>>
  ELSE <<Head(ts)>> \o Flatten(Head(ts).children)
       \o Flatten(HrefTokens(Head(ts))) \o Flatten(Tail(ts))

\* the types whose tokens the tokenizer builds without a content field and
\* without a children field
BareTypes == {"cursor", "hr", "table_separator"}

\* no token has both content and children
NeverBoth(ts) ==
  \A k \in 1..Len(ts) : ~(ts[k].content # <<>> /\ ts[k].children # <<>>)

RECURSIVE ScanSteps(_, _)
\* the values of remaining and currentIndex at the iterations of the loop of
\* parseInline, from one iteration on
StepsFrom(next) == ScanSteps(next.remaining, next.currentIndex)

ScanSteps(remaining, currentIndex) ==
  IF currentIndex >= Len(remaining) THEN <<>>
  ELSE <<[remaining |-> remaining, currentIndex |-> currentIndex]>>
       \o StepsFrom(Advance(FirstMatch(remaining, currentIndex),
                            remaining, currentIndex))

\* one iteration made remaining shorter or moved the index by one
Moves(step, next) ==
  \/ Len(next.remaining) < Len(step.remaining)
  \/ /\ next.remaining = step.remaining
     /\ next.currentIndex = step.currentIndex + 1

\* the recursive calls of one iteration are made on text shorter than whole
ShorterSpans(spans, whole) ==
  \A j \in 1..Len(spans) : Len(spans[j]) < Len(whole)

RECURSIVE ScansDown(_)
\* every iteration of parseInline(whole) moves, its recursive calls are made
\* on shorter text, and the same holds within these calls
SpansScanDown(spans) == \A j \in 1..Len(spans) : ScansDown(spans[j])

StepScansDown(step, whole) ==
  /\ Moves(step, Advance(FirstMatch(step.remaining, step.currentIndex),
                         step.remaining, step.currentIndex))
  /\ ShorterSpans(FirstMatch(step.remaining, step.currentIndex).spans, whole)
  /\ SpansScanDown(FirstMatch(step.remaining, step.currentIndex).spans)

ScansDown(whole) ==
  \A k \in 1..Len(ScanSteps(whole, 0)) :
    StepScansDown(ScanSteps(whole, 0)[k], whole)

\* C32: parseInline returns for every text: each iteration of its loop
\* shortens the remaining text or advances the index by one, and every
\* recursive call is made on text shorter than the text of its caller
C32_ParseInlineScansDown ==
  InlineParsed => ScansDown(call.line)

\* a text was parsed with an iteration that matched nothing and moved the
\* index, and a later one that matched and parsed a span by a recursive call
C32_Witness ==
  /\ InlineParsed
  /\ \E k \in 1..Len(ScanSteps(call.line, 0)) :
       /\ ScanSteps(call.line, 0)[k].currentIndex > 0
       /\ FirstMatch(ScanSteps(call.line, 0)[k].remaining,
                     ScanSteps(call.line, 0)[k].currentIndex).spans # <<>>
       /\ FirstMatch(ScanSteps(call.line, 0)[k].remaining,
                     ScanSteps(call.line, 0)[k].currentIndex).spans[1] # <<>>

\* C33: parsing the Markdown that the formatter writes for the tokens of a
\* line gives the tokens of the line again
C33_ParseOfFormatOfParseIsParse ==
  Formatted => parseBuiltIn(call.line) = call.out.tokens

\* C34: with the built-in line processors, a feed of parse() that asks for
\* the line again leaves no block open, and the feed that takes the line
\* again never asks for it a third time
C34_LineIsFedAtMostTwice ==
  [][ (~cfg.custom /\ op' = "parse:feed" /\ result'.hasRemaining)
      => /\ state'.blockType = "none"
         /\ ~state'.inCodeBlock
         /\ ~Pending ]_vars

\* a feed of parse() closed the open list with a line that does not continue
\* it and asked for the line again
C34_Witness ==
  /\ ~cfg.custom
  /\ op = "parse:feed"
  /\ prevType = "list"
  /\ trim(line) # <<>>
  /\ result.type = "complete"
  /\ result.hasRemaining
  /\ result.remainingInput = line
  /\ state.blockType = "none"

\* the step of parse() closed the open block: the buffer of the block is not
\* the beginning of the buffer afterwards
BlockClosed ==
  /\ op' \in {"parse:feed", "parse:flush"}
  /\ state.blockType \in {"paragraph", "blockquote", "list", "table"}
  /\ state.buffer # <<>>
  /\ \/ Len(state'.buffer) < Len(state.buffer)
     \/ Take(state'.buffer, Len(state.buffer)) # state.buffer

\* C35: parse() discards no buffered line: when a block closes, the call
\* returns an element for parse() to emit, and a paragraph, which holds one
\* line, is returned only for a buffer of one line
C35_NoBufferedLineIsDiscarded ==
  [][ BlockClosed
      => /\ ~thrown'
         /\ result'.type = "complete"
         /\ result'.element.type = "p" => Len(state.buffer) = 1 ]_vars

\* C36: parse() leaves the keys of the hooks table as they were: no step of
\* parse() puts the theme hook into the table of a parser built without it
C36_ParseLeavesHookKeys ==
  [][ op' \in {"parse:start", "parse:feed", "parse:flush"} => theme' = theme ]_vars

\* what the enclosing parser, with its own line processors, options and
\* hooks, makes of the inner text, whichever of its hooks throws
EnclosingParses(inner) ==
  { parseDocument(inner, Cx(bad), theme).tokens : bad \in {"none"} \cup ThrowTypes }

\* C37: the children of a completed blockquote are what the enclosing parser
\* makes of the inner text of the blockquote
C37_InnerParseIsEnclosingParse ==
  [][ (/\ state.blockType = "blockquote"
       /\ ~thrown'
       /\ result'.type = "complete"
       /\ result'.element.type = "blockquote")
      => result'.element.children \in EnclosingParses(join(state.buffer, "\n")) ]_vars

(***************************************************************************)
(* TokenParser with hooks that rewrite the token they are given.           *)
(***************************************************************************)
\* the hooks a caller registers: a hook that returns its token, one that
\* changes the type of the token and one that gives the token a new child,
\* for the types of parsed tokens and for the types that hooks introduce
RewritingHooks ==
  { [name |-> <<does, tokenType>>, tokenType |-> tokenType, does |-> does] :
      does \in {"keep", "retype", "nest"},
      tokenType \in {"text", "bold", "custom", "nested"} }

HookLists == UNION { [1..n -> RewritingHooks] : n \in 0..MaxHooks }

RECURSIVE AddHooks(_, _)
\* for (const hook of config.hooks) this.addHook(hook)
AddHooks(table, hs) ==
  IF hs = <<>> THEN table ELSE AddHooks(addHook(table, Head(hs)), Tail(hs))

HookLines ==
  { <<"a">>, <<"*", "*", "a", "*", "*">>, <<"#", " ", "a">>,
    <<"*", "*", "a", "*", "*", " ", "b">>, <<">", " ", "*", "*", "a", "*", "*">> }

\* new TokenParser({ plugins, hooks }) and the line a caller is about to parse
HookInit ==
  /\ NewParser
  /\ theme = TRUE
  /\ cfg = InnerCfg
  /\ \E c \in ConfigPlugins :
       /\ plugins = SortByPriority(c)
       /\ pluginLog = c
  /\ \E hs \in HookLists :
       /\ hooks = AddHooks(NoHooks, hs)
       /\ hookLog = hs
  /\ prevHooks = NoHooks
  /\ \E l \in HookLines : call = Call("new", l, "", "", Parsed(<<>>))

\* TokenParser.parse(line)
HookParse ==
  /\ call.method = "new"
  /\ prevHooks' = hooks
  /\ call' = Call("parse", call.line, "", "", TryPlugins(plugins, hooks, call.line))
  /\ UNCHANGED <<plugins, pluginLog, hooks, hookLog, mdVars>>

HookNext == HookParse

HookSpec == HookInit /\ [][HookNext]_vars

\* the tokens that the parser or a plugin produced for the parsed line,
\* before any hook
Produced == TryPlugins(plugins, NoHooks, call.line).tokens

\* the hooks registered for a type
Selected(type) == IF type \in DOMAIN hooks THEN hooks[type] ELSE <<>>

\* the names of the hooks that were applied to a token, in order
AppliedTo(token) == [k \in 1..Len(token.hooked) |-> token.hooked[k].name]

Does(hs, does) == \E k \in 1..Len(hs) : hs[k].does = does

RECURSIVE HookedOnce(_, _)
\* out is what the hooks made of the produced token: every hook registered
\* for the type of the produced token was applied once, in order, and no
\* other hook; the children that a hook put in were given to no hook, and
\* the children produced with the token were hooked in the same way
HookedOnce(produced, out) ==
  /\ AppliedTo(out) = [k \in 1..Len(Selected(produced.type)) |->
                         Selected(produced.type)[k].name]
  /\ out.type = IF Does(Selected(produced.type), "retype")
                THEN "custom" ELSE produced.type
  /\ IF Does(Selected(produced.type), "nest")
     THEN \A k \in 1..Len(out.children) :
            /\ out.children[k].type = "nested"
            /\ out.children[k].hooked = <<>>
     ELSE /\ Len(out.children) = Len(produced.children)
          /\ \A k \in 1..Len(out.children) :
               HookedOnce(produced.children[k], out.children[k])

\* C38: parse applies to every token that the parser or a plugin produced
\* the hooks registered for the type the token was produced with, once each;
\* a token that a hook gave another type gets no hook of the new type, and
\* children that a hook introduced get no hook
C38_HooksAppliedOnceByProducedType ==
  (call.method = "parse" /\ ~call.out.thrown)
    => /\ Len(call.out.tokens) = Len(Produced)
       /\ \A k \in 1..Len(Produced) : HookedOnce(Produced[k], call.out.tokens[k])

\* a line was parsed with a hook that changed the type of a produced bold
\* token to a type that has a hook of its own
C38_Witness ==
  /\ call.method = "parse"
  /\ ~call.out.thrown
  /\ Len(Produced) >= 1
  /\ Produced[1].type = "bold"
  /\ Does(Selected("bold"), "retype")
  /\ Selected("custom") # <<>>
  /\ call.out.tokens[1].type = "custom"

\* C39: with the built-in line processors, after every call inCodeBlock is
\* true exactly when the block type is code_block, and the buffer holds
\* lines exactly when a block is open
C39_FlagsAgreeWithBlockType ==
  ~cfg.custom
    => /\ state.inCodeBlock <=> state.blockType = "code_block"
       /\ state.buffer # <<>> <=> state.blockType # "none"

\* a code block is open with the line of its fence and a line of code in
\* the buffer
C39_Witness ==
  /\ ~cfg.custom
  /\ op \in {"feedLine", "parse:feed"}
  /\ state.inCodeBlock
  /\ state.blockType = "code_block"
  /\ Len(state.buffer) = 2

=============================================================================
